---------------------------- MODULE Spec2Model ----------------------------
(***************************************************************************)
(* A model of fontra-compile's Builder (src/src/fontra_compile/builder.py) *)
(* and of its command line driver (src/src/fontra_compile/__main__.py).    *)
(*                                                                         *)
(* Values.  Design-space and normalized axis values, deltas and weights    *)
(* are exact rationals <<n, d>> (d > 0, lowest terms).  Every input of the *)
(* model is an integer and every normalized location a multiple of 1/2,    *)
(* so the binary floating point arithmetic of the program is exact on the  *)
(* values the model reaches.  Outline coordinates and advances are         *)
(* integers (font units).                                                  *)
(*                                                                         *)
(* Python dicts whose iteration order is used are sequences of <<key,      *)
(* value>> pairs; dicts whose order is never observed are functions.       *)
(***************************************************************************)
EXTENDS Integers, Sequences, FiniteSets, TLC

(***************************************************************************)
(* Generic helpers                                                         *)
(***************************************************************************)
Abs(n) == IF n < 0 THEN -n ELSE n

RECURSIVE Gcd(_, _)
Gcd(a, b) == IF b = 0 THEN a ELSE Gcd(b, a % b)

Range(s) == {s[i] : i \in 1..Len(s)}

\* The element of a singleton set.  The({e(v) : v \in {x}}) is e(x) with x bound
\* to v once, as a local variable of the code is.
The(S) == CHOOSE v \in S : TRUE

SeqContains(s, x) == \E i \in 1..Len(s) : s[i] = x

\* list.index(x): the first position of x in s
IndexOf(s, x) == CHOOSE i \in 1..Len(s) : s[i] = x /\ \A j \in 1..(i - 1) : s[j] # x

RECURSIVE SumSeq(_)
SumSeq(s) == IF s = <<>> THEN 0 ELSE Head(s) + SumSeq(Tail(s))

\* The permutations of 1..n, as sequences
Perms(n) == {p \in [1..n -> 1..n] : \A i, j \in 1..n : p[i] = p[j] => i = j}

Permute(s, p) == [i \in 1..Len(s) |-> s[p[i]]]

(***************************************************************************)
(* Exact rational arithmetic                                               *)
(***************************************************************************)
RNorm(n, d) ==
    LET s == IF d < 0 THEN -1 ELSE 1
        g == Gcd(Abs(n), Abs(d))
    IN  <<(s * n) \div g, (s * d) \div g>>

R(n) == <<n, 1>>
RZero == R(0)
ROne == R(1)
RAdd(a, b) == RNorm(a[1] * b[2] + b[1] * a[2], a[2] * b[2])
RSub(a, b) == RNorm(a[1] * b[2] - b[1] * a[2], a[2] * b[2])
RMul(a, b) == RNorm(a[1] * b[1], a[2] * b[2])
RDiv(a, b) == RNorm(a[1] * b[2], a[2] * b[1])
RLt(a, b) == a[1] * b[2] < b[1] * a[2]
RLe(a, b) == a[1] * b[2] <= b[1] * a[2]
RAbs(a) == <<Abs(a[1]), a[2]>>
RSign(a) == IF a[1] < 0 THEN -1 ELSE IF a[1] > 0 THEN 1 ELSE 0
RMin(a, b) == IF RLt(b, a) THEN b ELSE a
RMax(a, b) == IF RLt(a, b) THEN b ELSE a
RIsInt(a) == a[2] = 1

\* Lexicographic order on equally long sequences of rationals
RECURSIVE RLexLess(_, _)
RLexLess(a, b) ==
    IF a = <<>> \/ b = <<>> THEN a = <<>> /\ b # <<>>
    ELSE IF Head(a) = Head(b) THEN RLexLess(Tail(a), Tail(b))
    ELSE RLt(Head(a), Head(b))

\* fontTools.misc.roundTools.otRound: floor(v + 0.5)
otRound(a) == (2 * a[1] + a[2]) \div (2 * a[2])

\* fontTools.misc.roundTools.noRound
noRound(a) == a


(***************************************************************************)
(* Python dicts with observable insertion order: sequences of <<k, v>>     *)
(***************************************************************************)
DKeys(d) == [i \in 1..Len(d) |-> d[i][1]]
DHas(d, k) == \E i \in 1..Len(d) : d[i][1] = k
DGet(d, k) == d[CHOOSE i \in 1..Len(d) : d[i][1] = k][2]

\* {**a, **b}: a's keys keep their place and take b's value, b's new keys follow
DMerge(a, b) ==
    [i \in 1..Len(a) |-> IF DHas(b, a[i][1]) THEN <<a[i][1], DGet(b, a[i][1])>> ELSE a[i]]
    \o SelectSeq(b, LAMBDA kv : ~DHas(a, kv[1]))

\* mapDictKeys(d, mapping) for a dict d held as a function
mapDictKeys(d, mapping) ==
    [t \in {DGet(mapping, k) : k \in DOMAIN d} |->
        d[CHOOSE k \in DOMAIN d : DGet(mapping, k) = t]]

(***************************************************************************)
(* The order of Python's str comparison on the names the model uses        *)
(***************************************************************************)
TagOrder == <<"V000", "V001", "V002", "wdth", "wght">>
TagRank(t) == CHOOSE i \in 1..Len(TagOrder) : TagOrder[i] = t

NameOrder == <<".notdef", "A", "B", "C", "D">>
NameRank(n) == CHOOSE i \in 1..Len(NameOrder) : NameOrder[i] = n

\* sorted(S) for a set S of glyph names
RECURSIVE SortedNames(_)
SortedNames(S) ==
    IF S = {} THEN <<>>
    ELSE LET m == CHOOSE x \in S : \A y \in S : NameRank(x) <= NameRank(y)
         IN  <<m>> \o SortedNames(S \ {m})

\* sorted(S) for a set S of axis tags
RECURSIVE SortedTags(_)
SortedTags(S) ==
    IF S = {} THEN <<>>
    ELSE LET m == CHOOSE x \in S : \A y \in S : TagRank(x) <= TagRank(y)
         IN  <<m>> \o SortedTags(S \ {m})

(***************************************************************************)
(* Axes (fontTools.varLib.models helpers and builder.py's axis functions)  *)
(***************************************************************************)
\* piecewiseLinearMap(v, mapping), mapping a sequence of <<from, to>> integers
piecewiseLinearMap(v, mapping) ==
    LET keys == {mapping[i][1] : i \in 1..Len(mapping)}
        val(k) == DGet(mapping, k)
        kmin == CHOOSE k \in keys : \A x \in keys : k <= x
        kmax == CHOOSE k \in keys : \A x \in keys : k >= x
    IN  IF keys = {} THEN R(v)
        ELSE IF v \in keys THEN R(val(v))
        ELSE IF v < kmin THEN R(v + val(kmin) - kmin)
        ELSE IF v > kmax THEN R(v + val(kmax) - kmax)
        ELSE LET a == CHOOSE k \in keys : k < v /\ \A x \in keys : x < v => x <= k
                 b == CHOOSE k \in keys : k > v /\ \A x \in keys : x > v => x >= k
             IN  RAdd(R(val(a)), RDiv(R((val(b) - val(a)) * (v - a)), R(b - a)))

applyAxisMapToAxisValues(axis) ==
    <<piecewiseLinearMap(axis.minValue, axis.mapping),
      piecewiseLinearMap(axis.defaultValue, axis.mapping),
      piecewiseLinearMap(axis.maxValue, axis.mapping)>>

\* axisTuple(axis, fixAsymmetricAxes=True)
axisTuple(axis) ==
    LET minDiff == axis.defaultValue - axis.minValue
        maxDiff == axis.maxValue - axis.defaultValue
        asym == axis.minValue < axis.defaultValue /\ axis.defaultValue < axis.maxValue
    IN  IF asym /\ minDiff > maxDiff
            THEN <<R(axis.minValue), R(axis.defaultValue), R(axis.defaultValue + minDiff)>>
        ELSE IF asym /\ minDiff < maxDiff
            THEN <<R(axis.defaultValue - maxDiff), R(axis.defaultValue), R(axis.maxValue)>>
        ELSE <<R(axis.minValue), R(axis.defaultValue), R(axis.maxValue)>>

\* fontTools.varLib.models.normalizeValue(v, triple)
normalizeValue(v, triple) ==
    LET lower == triple[1]
        default == triple[2]
        upper == triple[3]
        c == RMax(RMin(v, upper), lower)
    IN  IF c = default \/ lower = upper THEN RZero
        ELSE IF (RLt(c, default) /\ lower # default) \/ (RLt(default, c) /\ upper = default)
            THEN RDiv(RSub(c, default), RSub(default, lower))
        ELSE RDiv(RSub(c, default), RSub(upper, default))

\* fontTools.varLib.models.normalizeLocation(location, axes): one value for
\* every axis of axes, the axis default where the location has none
normalizeLocation(location, axes) ==
    [name \in Range(DKeys(axes)) |->
        normalizeValue(
            IF name \in DOMAIN location THEN location[name] ELSE DGet(axes, name)[2],
            DGet(axes, name))]

\* makeLocalAxisTags(axisDict, globalAxes): V000, V001, ... in dict order
LocalTag(n) == TagOrder[n + 1]

makeLocalAxisTags(axisDict, globalAxes) ==
    LET locals == SelectSeq(DKeys(axisDict), LAMBDA name : ~DHas(globalAxes, name))
    IN  [i \in 1..Len(locals) |-> <<locals[i], LocalTag(i - 1)>>]

(***************************************************************************)
(* fontTools.varLib.models.VariationModel, as the builder uses it          *)
(* (VariationModel(locations), reverseMapping, supports, getDeltas).       *)
(* A location is a function from axis tags to rationals.                   *)
(***************************************************************************)
VM_Sparse(loc) == [t \in {x \in DOMAIN loc : loc[x] # RZero} |-> loc[t]]

\* getMasterLocationsSortKeyFunc: the on-axis points of every axis
VM_AxisPoints(locs) ==
    LET onAxis == {i \in 1..Len(locs) : Cardinality(DOMAIN locs[i]) = 1}
        axisOf(i) == CHOOSE t \in DOMAIN locs[i] : TRUE
    IN  [t \in {axisOf(i) : i \in onAxis} |->
            {RZero} \cup {locs[i][t] : i \in {j \in onAxis : axisOf(j) = t}}]

\* The sort key of a master: rank, minus the number of on-point axes, the
\* axis tags in sorted order, the signs and the absolute values
VM_Key(loc, axisPoints) ==
    LET orderedAxes == SortedTags(DOMAIN loc)
        onPoint == {t \in DOMAIN loc : t \in DOMAIN axisPoints /\ loc[t] \in axisPoints[t]}
    IN  <<R(Cardinality(DOMAIN loc)), R(-Cardinality(onPoint))>>
        \o [i \in 1..Len(orderedAxes) |-> R(TagRank(orderedAxes[i]))]
        \o [i \in 1..Len(orderedAxes) |-> R(RSign(loc[orderedAxes[i]]))]
        \o [i \in 1..Len(orderedAxes) |-> RAbs(loc[orderedAxes[i]])]

VM_KeyLess(a, b, axisPoints) == RLexLess(VM_Key(a, axisPoints), VM_Key(b, axisPoints))

VM_Sorted(locs) ==
    LET ap == VM_AxisPoints(locs)
    IN  SortSeq(locs, LAMBDA a, b : VM_KeyLess(a, b, ap))

\* _locationsToRegions: the box of a master before any split
VM_Region(locs, i) ==
    LET ext(t) == {locs[j][t] : j \in {k \in 1..Len(locs) : t \in DOMAIN locs[k]}}
        minV(t) == CHOOSE v \in ext(t) : \A w \in ext(t) : RLe(v, w)
        maxV(t) == CHOOSE v \in ext(t) : \A w \in ext(t) : RLe(w, v)
    IN  [t \in DOMAIN locs[i] |->
            IF RLt(RZero, locs[i][t]) THEN <<RZero, locs[i][t], maxV(t)>>
            ELSE <<minV(t), locs[i][t], RZero>>]

\* One step of _computeMasterSupports: the earlier master prev splits region
VM_Split(region, prev) ==
    LET relevant ==
            \A t \in DOMAIN region :
                prev[t] = region[t][2]
                \/ (RLt(region[t][1], prev[t]) /\ RLt(prev[t], region[t][3]))
        cand == {t \in DOMAIN prev : prev[t] # region[t][2]}
        ratio(t) ==
            IF RLt(prev[t], region[t][2])
            THEN RDiv(RSub(prev[t], region[t][2]), RSub(region[t][1], region[t][2]))
            ELSE RDiv(RSub(prev[t], region[t][2]), RSub(region[t][3], region[t][2]))
        best == {t \in cand : \A u \in cand : RLe(ratio(u), ratio(t))}
    IN  IF DOMAIN prev # DOMAIN region \/ ~relevant THEN region
        ELSE [t \in DOMAIN region |->
                IF t \notin best THEN region[t]
                ELSE IF RLt(prev[t], region[t][2])
                    THEN <<prev[t], region[t][2], region[t][3]>>
                ELSE <<region[t][1], region[t][2], prev[t]>>]

\* The support of master i: its box split by masters 1..i-1 in order
RECURSIVE VM_SplitBy(_, _, _, _)
VM_SplitBy(region, locs, j, i) ==
    IF j >= i THEN region
    ELSE VM_SplitBy(VM_Split(region, locs[j]), locs, j + 1, i)

VM_Supports(locs) == [i \in 1..Len(locs) |-> VM_SplitBy(VM_Region(locs, i), locs, 1, i)]

\* supportScalar(location, support), ot=True: the product of the tents
VM_AxisScalar(v, triple) ==
    LET lower == triple[1]
        peak == triple[2]
        upper == triple[3]
    IN  IF peak = RZero THEN ROne
        ELSE IF RLt(peak, lower) \/ RLt(upper, peak) THEN ROne
        ELSE IF RLt(lower, RZero) /\ RLt(RZero, upper) THEN ROne
        ELSE IF v = peak THEN ROne
        ELSE IF RLe(v, lower) \/ RLe(upper, v) THEN RZero
        ELSE IF RLt(v, peak) THEN RDiv(RSub(v, lower), RSub(peak, lower))
        ELSE RDiv(RSub(upper, v), RSub(upper, peak))

RECURSIVE VM_ScalarOver(_, _, _)
VM_ScalarOver(axes, location, support) ==
    IF axes = {} THEN ROne
    ELSE LET t == CHOOSE x \in axes : TRUE
             v == IF t \in DOMAIN location THEN location[t] ELSE RZero
         IN  RMul(VM_AxisScalar(v, support[t]), VM_ScalarOver(axes \ {t}, location, support))

supportScalar(location, support) == VM_ScalarOver(DOMAIN support, location, support)

\* _computeDeltaWeights: for master i the non-zero scalars of the earlier masters
VM_DeltaWeights(locs, supports) ==
    [i \in 1..Len(locs) |->
        [j \in {k \in 1..(i - 1) : supportScalar(locs[i], supports[k]) # RZero} |->
            supportScalar(locs[i], supports[j])]]

NoModel == [error |-> "none", isModel |-> FALSE]

\* VariationModel(locations): VariationModelError for duplicate locations or
\* a missing base master, else the sorted masters and what is derived of them
VariationModel(origLocations) ==
    LET n == Len(origLocations)
        sparse == [i \in 1..n |-> VM_Sparse(origLocations[i])]
        unique == \A i, j \in 1..n : origLocations[i] = origLocations[j] => i = j
        hasBase == \E i \in 1..n : DOMAIN sparse[i] = {}
    IN  IF ~unique \/ ~hasBase THEN [error |-> "VariationModelError", isModel |-> FALSE]
        ELSE LET locs == VM_Sorted(sparse)
                 supports == VM_Supports(locs)
             IN  [error |-> "none",
                  isModel |-> TRUE,
                  locations |-> locs,
                  mapping |-> [i \in 1..n |-> IndexOf(locs, sparse[i])],
                  reverseMapping |-> [i \in 1..n |-> IndexOf(sparse, locs[i])],
                  supports |-> supports,
                  deltaWeights |-> VM_DeltaWeights(locs, supports)]

\* Vectors of rationals
VSub(a, b) == [k \in 1..Len(a) |-> RSub(a[k], b[k])]
VAdd(a, b) == [k \in 1..Len(a) |-> RAdd(a[k], b[k])]
VScale(a, w) == [k \in 1..Len(a) |-> RMul(a[k], w)]

\* model.getDeltas(masterValues, round=noRound): the deltas in model order,
\* masterValues (one vector per source) in source order
RECURSIVE VM_SubtractEarlier(_, _, _, _)
VM_SubtractEarlier(delta, out, weights, js) ==
    IF js = {} THEN delta
    ELSE LET j == CHOOSE x \in js : TRUE
         IN  VM_SubtractEarlier(VSub(delta, VScale(out[j], weights[j])), out, weights, js \ {j})

RECURSIVE VM_Deltas(_, _, _, _)
VM_Deltas(model, masterValues, doRound, out) ==
    LET i == Len(out) + 1
    IN  IF i > Len(model.deltaWeights) THEN out
        ELSE LET weights == model.deltaWeights[i]
                 raw == VM_SubtractEarlier(masterValues[model.reverseMapping[i]], out,
                                           weights, DOMAIN weights)
                 d == IF doRound THEN [k \in 1..Len(raw) |-> R(otRound(raw[k]))] ELSE raw
             IN  VM_Deltas(model, masterValues, doRound, Append(out, d))

getDeltas(model, masterValues, doRound) == VM_Deltas(model, masterValues, doRound, <<>>)

(***************************************************************************)
(* The source font (the reader).  A VariableGlyph is a record              *)
(*   [axes: Seq([name, minValue, defaultValue, maxValue]),                 *)
(*    sources: Seq([location, inactive, glyph])]                           *)
(* where glyph is the layer glyph the source's layerName selects:          *)
(*   [path: [contourInfo, coordinates], xAdvance, components]              *)
(* and a component is [name, transformation, location].  Design-space      *)
(* locations are functions from axis names to integers.                    *)
(***************************************************************************)
\* reader.getAxes(): the global axes of the font.  "width" has an axis map.
GlobalAxes ==
    <<[name |-> "weight", tag |-> "wght", minValue |-> 0, defaultValue |-> 0,
       maxValue |-> 1, mapping |-> <<>>],
      [name |-> "width", tag |-> "wdth", minValue |-> 0, defaultValue |-> 0,
       maxValue |-> 200, mapping |-> <<<<0, 0>>, <<200, 2>>>>]>>

\* Builder.setup: globalAxisDict, globalAxisTags, defaultLocation
globalAxisDict ==
    [i \in 1..Len(GlobalAxes) |-> <<GlobalAxes[i].name, applyAxisMapToAxisValues(GlobalAxes[i])>>]

globalAxisTags == [i \in 1..Len(GlobalAxes) |-> <<GlobalAxes[i].name, GlobalAxes[i].tag>>]

DefaultsOf(axisDict) == [name \in Range(DKeys(axisDict)) |-> DGet(axisDict, name)[2]]

\* {**a, **b} for dicts held as functions
FMerge(a, b) == [k \in DOMAIN a \cup DOMAIN b |-> IF k \in DOMAIN b THEN b[k] ELSE a[k]]

LocR(location) == [k \in DOMAIN location |-> R(location[k])]

\* filterActiveSources(sources)
filterActiveSources(sources) == SelectSeq(sources, LAMBDA source : ~source.inactive)

\* prepareLocations(glyphSources, defaultLocation, axisDict)
prepareLocations(glyphSources, defaultLocation, axisDict) ==
    [i \in 1..Len(glyphSources) |->
        normalizeLocation(FMerge(defaultLocation, LocR(glyphSources[i].location)), axisDict)]

\* checkInterpolationCompatibility: TRUE when every active source has the
\* contourInfo of the first one (else InterpolationError is raised)
checkInterpolationCompatibility(glyphSources) ==
    \A i \in 1..Len(glyphSources) :
        glyphSources[i].glyph.path.contourInfo = glyphSources[1].glyph.path.contourInfo

\* prepareXAdvanceVariations listing the advance of the first source once
\* more, ahead of the advances of the sources
prepareXAdvanceVariations_WithDefault(glyphSources) ==
    <<glyphSources[1].glyph.xAdvance>>
    \o [i \in 1..Len(glyphSources) |-> glyphSources[i].glyph.xAdvance]

\* prepareXAdvanceVariations(glyph, glyphSources)
prepareXAdvanceVariations(glyphSources) ==
    [i \in 1..Len(glyphSources) |-> glyphSources[i].glyph.xAdvance]

\* prepareSourceCoordinates: per source the flattened point coordinates
\* followed by the four phantom points (0,0), (xAdvance,0), (0,0), (0,0)
FlattenPoints(points) ==
    [k \in 1..(2 * Len(points)) |-> R(points[(k + 1) \div 2][IF k % 2 = 1 THEN 1 ELSE 2])]

prepareSourceCoordinates(glyphSources) ==
    [i \in 1..Len(glyphSources) |->
        FlattenPoints(glyphSources[i].glyph.path.coordinates
                      \o <<<<0, 0>>, <<glyphSources[i].glyph.xAdvance, 0>>, <<0, 0>>, <<0, 0>>>>)]

WordMin == -32768
WordMax == 32767

\* ensureWordRange(d): TRUE when every value fits (else ValueError is raised)
ensureWordRange(d) == \A k \in 1..Len(d) : WordMin <= d[k] /\ d[k] <= WordMax

\* GlyphCoordinates.toInt(): otRound of every value
toInt(d) == [k \in 1..Len(d) |-> otRound(d[k])]

\* prepareGvarVariations without "deltas.pop(0)" and "supports.pop(0)": the
\* default master's delta is stored as a variation too
prepareGvarVariations_KeepDefault(sourceCoordinates, model) ==
    LET deltas == getDeltas(model, sourceCoordinates, FALSE)
        rounded == [i \in 1..Len(deltas) |-> toInt(deltas[i])]
    IN  IF \E i \in 1..Len(rounded) : ~ensureWordRange(rounded[i])
        THEN [error |-> "ValueError", variations |-> <<>>]
        ELSE [error |-> "none",
              variations |-> [i \in 1..Len(rounded) |->
                                 [axes |-> model.supports[i], coordinates |-> rounded[i]]]]

\* prepareGvarVariations(sourceCoordinates, model): the deltas and supports
\* of the non-default masters, rounded; ValueError when one is out of range
prepareGvarVariations(sourceCoordinates, model) ==
    LET deltas == getDeltas(model, sourceCoordinates, FALSE)
        rounded == [i \in 1..(Len(deltas) - 1) |-> toInt(deltas[i + 1])]
    IN  IF \E i \in 1..Len(rounded) : ~ensureWordRange(rounded[i])
        THEN [error |-> "ValueError", variations |-> <<>>]
        ELSE [error |-> "none",
              variations |-> [i \in 1..Len(rounded) |->
                                 [axes |-> model.supports[i + 1], coordinates |-> rounded[i]]]]

\* buildTTGlyph(glyph, glyphSources, defaultLayerGlyph, model)
buildTTGlyph(glyphSources, defaultLayerGlyph, model) ==
    LET ttGlyph == [present |-> TRUE,
                    contourInfo |-> defaultLayerGlyph.path.contourInfo,
                    coordinates |-> defaultLayerGlyph.path.coordinates]
        gv == IF model.isModel
              THEN prepareGvarVariations(prepareSourceCoordinates(glyphSources), model)
              ELSE [error |-> "none", variations |-> <<>>]
    IN  [error |-> gv.error, ttGlyph |-> ttGlyph, gvarVariations |-> gv.variations]

\* buildCharString drawing the sources in the order given, never reordered
buildCharString_AsGiven(glyphSources, defaultLayerGlyph, model) ==
    IF ~model.isModel
    THEN [charString |-> [present |-> TRUE, paths |-> <<defaultLayerGlyph.path.coordinates>>,
                          firstIsDefault |-> TRUE,
                          program |-> <<>>],
          charStringSupports |-> <<>>, hasSupports |-> FALSE]
    ELSE [charString |-> [present |-> TRUE,
                          paths |-> [i \in 1..Len(glyphSources) |->
                                        glyphSources[i].glyph.path.coordinates],
                          firstIsDefault |-> model.reverseMapping[1] = 1,
                          program |-> <<>>],
          charStringSupports |-> Tail(model.supports), hasSupports |-> TRUE]

\* buildCharString(glyph, glyphSources, defaultLayerGlyph, model): the paths
\* merged into the charstring, in drawing order, and the supports used
buildCharString(glyphSources, defaultLayerGlyph, model) ==
    IF ~model.isModel
    THEN [charString |-> [present |-> TRUE, paths |-> <<defaultLayerGlyph.path.coordinates>>,
                          firstIsDefault |-> TRUE,
                          program |-> <<>>],
          charStringSupports |-> <<>>, hasSupports |-> FALSE]
    ELSE LET reorder == model.reverseMapping[1] # 1
             srcs == IF reorder
                     THEN [i \in 1..Len(glyphSources) |-> glyphSources[model.reverseMapping[i]]]
                     ELSE glyphSources
             used == IF reorder THEN VariationModel(model.locations) ELSE model
         IN  [charString |-> [present |-> TRUE,
                              paths |-> [i \in 1..Len(srcs) |-> srcs[i].glyph.path.coordinates],
                              firstIsDefault |-> used.reverseMapping[1] = 1,
                              program |-> <<>>],
              charStringSupports |-> Tail(used.supports), hasSupports |-> TRUE]

\* computeLeftSideBearing(path, useTightBounds)
computeLeftSideBearing(path) ==
    IF path.coordinates = <<>> THEN 0
    ELSE CHOOSE x \in {path.coordinates[k][1] : k \in 1..Len(path.coordinates)} :
            \A k \in 1..Len(path.coordinates) : x <= path.coordinates[k][1]

(***************************************************************************)
(* The builder's caches and the history the claims speak of, threaded      *)
(* through the operators below as one record m:                            *)
(*   cachedSourceGlyphs       the names cached by getSourceGlyph           *)
(*   cachedComponentBaseInfo  name -> base info, for the names cached      *)
(*   getGlyphCalls            name -> calls of reader.getGlyph             *)
(*   setupCalls               name -> runs of setupComponentBaseInfo       *)
(*   firstFetch               name -> "none", "compile" or "base"          *)
(***************************************************************************)
GlyphNames == {".notdef", "A", "B", "C"}

\* The stand-in for Python's recursion limit, in nested base glyph lookups
RecursionLimit == 4

EmptyMemo ==
    [cachedSourceGlyphs |-> {},
     cachedComponentBaseInfo |-> <<>>,
     getGlyphCalls |-> [n \in GlyphNames |-> 0],
     setupCalls |-> [n \in GlyphNames |-> 0],
     firstFetch |-> [n \in GlyphNames |-> "none"]]

\* getSourceGlyph never storing the glyph it fetched
StoreSourceGlyph_Never(cache, glyphName, storeInCache) == cache

\* getSourceGlyph's "if storeInCache: self.cachedSourceGlyphs[glyphName] = ..."
StoreSourceGlyph(cache, glyphName, storeInCache) ==
    IF storeInCache THEN cache \cup {glyphName} ELSE cache

\* Builder.getSourceGlyph(glyphName, storeInCache): the memo afterwards and
\* whether a glyph was found (the assertion fails when not)
getSourceGlyph(rd, m, glyphName, storeInCache) ==
    IF glyphName \in m.cachedSourceGlyphs THEN [m |-> m, found |-> TRUE]
    ELSE LET called ==
                 [m EXCEPT !.getGlyphCalls[glyphName] = @ + 1,
                           !.firstFetch[glyphName] =
                               IF @ = "none"
                               THEN (IF storeInCache THEN "base" ELSE "compile")
                               ELSE @]
         IN  IF glyphName \notin DOMAIN rd.glyphs THEN [m |-> called, found |-> FALSE]
             ELSE [m |-> [called EXCEPT !.cachedSourceGlyphs =
                                     StoreSourceGlyph(@, glyphName, storeInCache)],
                   found |-> TRUE]

\* Iterating a Python set of names: the order the hash seed gives
IterOrder(S, ho) == SelectSeq(ho, LAMBDA n : n \in S)

\* getComponentBaseNames(glyph): the base names of the first active source
getComponentBaseNames(glyph) ==
    LET first == filterActiveSources(glyph.sources)[1].glyph
    IN  {first.components[k].name : k \in 1..Len(first.components)}

LocalAxisDict(glyph) ==
    [i \in 1..Len(glyph.axes) |-> <<glyph.axes[i].name, axisTuple(glyph.axes[i])>>]

\* "bool(responsiveAxesNames)", the local axis names not taken away
RespondsItself_LocalToo(glyph) ==
    UNION {DOMAIN glyph.sources[i].location : i \in 1..Len(glyph.sources)} # {}

\* Whether a glyph's own sources (active or not) name an axis that is not
\* one of its local axes
RespondsItself(glyph) ==
    LET localAxisNames == {glyph.axes[i].name : i \in 1..Len(glyph.axes)}
        responsiveAxesNames == UNION {DOMAIN glyph.sources[i].location : i \in 1..Len(glyph.sources)}
    IN  responsiveAxesNames \ localAxisNames # {}

\* The dict setupComponentBaseInfo returns
BaseInfo(glyph, respondsToGlobalAxes) ==
    LET baseAxisDict == DMerge(globalAxisDict, LocalAxisDict(glyph))
    IN  [localAxisNames |-> {glyph.axes[i].name : i \in 1..Len(glyph.axes)},
         respondsToGlobalAxes |-> respondsToGlobalAxes,
         baseAxisDict |-> baseAxisDict,
         baseAxisTags |-> DMerge(globalAxisTags, makeLocalAxisTags(baseAxisDict, globalAxisDict))]

\* getComponentBaseInfo's "self.cachedComponentBaseInfo[baseGlyphName] = baseInfo"
StoreBaseInfo(cache, baseGlyphName, baseInfo) ==
    [n \in DOMAIN cache \cup {baseGlyphName} |->
        IF n = baseGlyphName THEN baseInfo ELSE cache[n]]

RECURSIVE getComponentBaseInfo(_, _, _, _, _)
RECURSIVE setupComponentBaseInfo(_, _, _, _, _)
RECURSIVE asyncAnyResponds(_, _, _, _, _)

\* Builder.getComponentBaseInfo(baseGlyphName): [m, error, info]
getComponentBaseInfo(rd, ho, m, baseGlyphName, depth) ==
    IF baseGlyphName \in DOMAIN m.cachedComponentBaseInfo
    THEN [m |-> m, error |-> "none", info |-> m.cachedComponentBaseInfo[baseGlyphName]]
    ELSE The({IF r.error # "none" THEN r
              ELSE [m |-> [r.m EXCEPT !.cachedComponentBaseInfo =
                                   StoreBaseInfo(@, baseGlyphName, r.info)],
                    error |-> "none", info |-> r.info] :
              r \in {setupComponentBaseInfo(rd, ho, m, baseGlyphName, depth)}})

\* asyncAny over the respondsToGlobalAxes of the nested bases, in order,
\* stopping at the first that responds: [m, error, value]
asyncAnyResponds(rd, ho, m, names, depth) ==
    IF names = <<>> THEN [m |-> m, error |-> "none", value |-> FALSE]
    ELSE The({IF r.error # "none" THEN [m |-> r.m, error |-> r.error, value |-> FALSE]
              ELSE IF r.info.respondsToGlobalAxes
                  THEN [m |-> r.m, error |-> "none", value |-> TRUE]
              ELSE asyncAnyResponds(rd, ho, r.m, Tail(names), depth) :
              r \in {getComponentBaseInfo(rd, ho, m, Head(names), depth)}})

\* What setupComponentBaseInfo returns when it raises
NoBaseInfo == BaseInfo([axes |-> <<>>], FALSE)

\* Builder.setupComponentBaseInfo(baseGlyphName): [m, error, info]
setupComponentBaseInfo(rd, ho, m, baseGlyphName, depth) ==
    IF depth > RecursionLimit THEN [m |-> m, error |-> "RecursionError", info |-> NoBaseInfo]
    ELSE The({
        IF ~g.found THEN [m |-> g.m, error |-> "AssertionError", info |-> NoBaseInfo]
        ELSE IF RespondsItself(rd.glyphs[baseGlyphName])
            THEN [m |-> g.m, error |-> "none", info |-> BaseInfo(rd.glyphs[baseGlyphName], TRUE)]
        ELSE IF filterActiveSources(rd.glyphs[baseGlyphName].sources) = <<>>
            THEN [m |-> g.m, error |-> "IndexError", info |-> NoBaseInfo]
        ELSE The({
            IF a.error # "none" THEN [m |-> a.m, error |-> a.error, info |-> NoBaseInfo]
            ELSE [m |-> a.m, error |-> "none",
                  info |-> BaseInfo(rd.glyphs[baseGlyphName], a.value)] :
            a \in {asyncAnyResponds(rd, ho, g.m,
                                    IterOrder(getComponentBaseNames(rd.glyphs[baseGlyphName]), ho),
                                    depth + 1)}}) :
        g \in {getSourceGlyph(rd, [m EXCEPT !.setupCalls[baseGlyphName] = @ + 1],
                              baseGlyphName, TRUE)}})

(***************************************************************************)
(* Component analysis (Builder.collectComponentInfo).  Flags are the set   *)
(* of the names of the VarComponentFlags bits that are set.                *)
(***************************************************************************)
\* fontTools' VAR_TRANSFORM_MAPPING: field, flag, identity default, in order
VAR_TRANSFORM_MAPPING ==
    <<[name |-> "translateX", flag |-> "HAVE_TRANSLATE_X", defaultValue |-> 0],
      [name |-> "translateY", flag |-> "HAVE_TRANSLATE_Y", defaultValue |-> 0],
      [name |-> "rotation", flag |-> "HAVE_ROTATION", defaultValue |-> 0],
      [name |-> "scaleX", flag |-> "HAVE_SCALE_X", defaultValue |-> 1],
      [name |-> "scaleY", flag |-> "HAVE_SCALE_Y", defaultValue |-> 1],
      [name |-> "skewX", flag |-> "HAVE_SKEW_X", defaultValue |-> 0],
      [name |-> "skewY", flag |-> "HAVE_SKEW_Y", defaultValue |-> 0],
      [name |-> "tCenterX", flag |-> "HAVE_TCENTER_X", defaultValue |-> 0],
      [name |-> "tCenterY", flag |-> "HAVE_TCENTER_Y", defaultValue |-> 0]>>

TransformFields == {VAR_TRANSFORM_MAPPING[i].name : i \in 1..Len(VAR_TRANSFORM_MAPPING)}

VARCO_IF_VARYING == {"rotation", "scaleX", "scaleY", "skewX", "skewY", "tCenterX", "tCenterY"}

\* "any(v != firstValue ...)" comparing with 0 instead of the first value
Varies_FromZero(values) ==
    \E i \in 1..Len(values) : values[i] # (IF values[i] \in Int THEN 0 ELSE RZero)

\* any(v != firstValue for v in values[1:])
Varies(values) == \E i \in 2..Len(values) : values[i] # values[1]

\* The base infos of the components of the first active source, looked up
\* in component order: [m, error, infos]
RECURSIVE CollectBaseInfos(_, _, _, _, _)
CollectBaseInfos(rd, ho, m, names, infos) ==
    IF names = <<>> THEN [m |-> m, error |-> "none", infos |-> infos]
    ELSE The({IF r.error # "none" THEN [m |-> r.m, error |-> r.error, infos |-> infos]
              ELSE CollectBaseInfos(rd, ho, r.m, Tail(names), Append(infos, r.info)) :
              r \in {getComponentBaseInfo(rd, ho, m, Head(names), 1)}})

\* The flags loop looking at the value of the first source only
TransformFlags_FirstSource(transform) ==
    {VAR_TRANSFORM_MAPPING[i].flag : i \in
        {j \in 1..Len(VAR_TRANSFORM_MAPPING) :
            transform[VAR_TRANSFORM_MAPPING[j].name][1] # VAR_TRANSFORM_MAPPING[j].defaultValue}}
    \cup (IF \E f \in TransformFields : Varies(transform[f])
          THEN {"TRANSFORM_HAS_VARIATION"} ELSE {})

\* The flags loop of collectComponentInfo for one component
TransformFlags(transform) ==
    {VAR_TRANSFORM_MAPPING[i].flag : i \in
        {j \in 1..Len(VAR_TRANSFORM_MAPPING) :
            \E k \in 1..Len(transform[VAR_TRANSFORM_MAPPING[j].name]) :
                transform[VAR_TRANSFORM_MAPPING[j].name][k] # VAR_TRANSFORM_MAPPING[j].defaultValue}}
    \cup (IF \E f \in TransformFields : Varies(transform[f])
          THEN {"TRANSFORM_HAS_VARIATION"} ELSE {})

AnalyseComponent(name, transform, location, baseInfo, defaultSourceIndex, numSources) ==
    LET resets == ~baseInfo.respondsToGlobalAxes
        flags ==
            (IF resets THEN {"RESET_UNSPECIFIED_AXES"} ELSE {})
            \cup (IF DOMAIN location # {} THEN {"HAVE_AXES"} ELSE {})
            \cup TransformFlags(transform)
            \cup (IF \E a \in DOMAIN location : Varies(location[a])
                  THEN {"AXIS_VALUES_HAVE_VARIATION"} ELSE {})
        axesAtDefault == {a \in DOMAIN location : ~Varies(location[a]) /\ location[a][1] = RZero}
        finalLocation ==
            IF resets THEN [a \in DOMAIN location \ axesAtDefault |-> location[a]]
            ELSE [a \in DOMAIN location \cup baseInfo.localAxisNames |->
                     IF a \in DOMAIN location THEN location[a]
                     ELSE [i \in 1..numSources |-> RZero]]
    IN  [name |-> name,
         transform |-> transform,
         location |-> finalLocation,
         localAxisNames |-> baseInfo.localAxisNames,
         respondsToGlobalAxes |-> baseInfo.respondsToGlobalAxes,
         baseAxisDict |-> baseInfo.baseAxisDict,
         baseAxisTags |-> baseInfo.baseAxisTags,
         isVariableComponent |->
             DOMAIN location # {} \/ \E f \in VARCO_IF_VARYING : Varies(transform[f]),
         flags |-> flags,
         defaultSourceIndex |-> defaultSourceIndex]

\* Builder.collectComponentInfo(glyph, defaultSourceIndex): [m, error, components]
collectComponentInfo(rd, ho, m, glyph, defaultSourceIndex) ==
    LET glyphSources == filterActiveSources(glyph.sources)
        numSources == Len(glyphSources)
        comps(i) == glyphSources[i].glyph.components
        \* zip() stops at the shortest component list
        n == CHOOSE k \in 0..Len(comps(1)) :
                 /\ \A i \in 1..numSources : k <= Len(comps(i))
                 /\ \E i \in 1..numSources : k = Len(comps(i))
        axisNames(k) == UNION {DOMAIN comps(i)[k].location : i \in 1..numSources}
        compatible ==
            \A i \in 1..numSources :
                /\ Len(comps(i)) = n
                /\ \A k \in 1..n : comps(i)[k].name = comps(1)[k].name
        transform(k) == [f \in TransformFields |->
                            [i \in 1..numSources |-> comps(i)[k].transformation[f]]]
        location(k, baseAxisDict) ==
            [a \in {x \in axisNames(k) : DHas(baseAxisDict, x)} |->
                [i \in 1..numSources |->
                    normalizeLocation(LocR(comps(i)[k].location), baseAxisDict)[a]]]
    IN  The({
            IF b.error # "none" THEN [m |-> b.m, error |-> b.error, components |-> <<>>]
            ELSE IF ~compatible
                THEN [m |-> b.m, error |-> "InterpolationError", components |-> <<>>]
            ELSE [m |-> b.m, error |-> "none",
                  components |-> [k \in 1..n |->
                      AnalyseComponent(comps(1)[k].name, transform(k),
                                       location(k, b.infos[k].baseAxisDict),
                                       b.infos[k], defaultSourceIndex, numSources)]] :
            b \in {CollectBaseInfos(rd, ho, m, [k \in 1..n |-> comps(1)[k].name], <<>>)}})

(***************************************************************************)
(* Builder.prepareOneGlyph and the placeholder of Builder.prepareGlyphs    *)
(***************************************************************************)
NoTTGlyph == [present |-> FALSE, contourInfo |-> <<>>, coordinates |-> <<>>]
EmptyTTGlyph == [present |-> TRUE, contourInfo |-> <<>>, coordinates |-> <<>>]
NoCharString ==
    [present |-> FALSE, paths |-> <<>>, firstIsDefault |-> TRUE, program |-> <<>>]
EmptyCharString ==
    [present |-> TRUE, paths |-> <<<<>>>>, firstIsDefault |-> TRUE, program |-> <<>>]

PlaceholderAdvance == 500

\* The GlyphInfo prepareGlyphs makes when prepareOneGlyph gave none
PlaceholderGlyphInfo(buildCFF2) ==
    [ttGlyph |-> IF buildCFF2 THEN NoTTGlyph ELSE EmptyTTGlyph,
     gvarVariations |-> <<>>,
     charString |-> IF buildCFF2 THEN EmptyCharString ELSE NoCharString,
     charStringSupports |-> <<>>,
     hasSupports |-> FALSE,
     hasContours |-> FALSE,
     xAdvance |-> PlaceholderAdvance,
     xAdvanceVariations |-> <<PlaceholderAdvance>>,
     leftSideBearing |-> 0,
     variableComponents |-> <<>>,
     localAxisTags |-> {},
     model |-> NoModel]

\* defaultSourceIndex = 0: the first active source, whatever its location
DefaultSourceIndex_First(model) == 1

\* "defaultSourceIndex = model.reverseMapping[0] if model is not None else 0",
\* as a position 1..n of the active sources

DefaultSourceIndex(model) == IF model.isModel THEN model.reverseMapping[1] ELSE 1

\* Builder.prepareOneGlyph(glyphName): [m, error, glyphInfo]
prepareOneGlyph(rd, ho, buildCFF2, m, glyphName) ==
    LET fail(mm, e) == [m |-> mm, error |-> e, glyphInfo |-> PlaceholderGlyphInfo(buildCFF2)]
    IN  The({
        IF ~g.found THEN fail(g.m, "AssertionError")
        ELSE The({
        IF ~checkInterpolationCompatibility(glyphSources) THEN fail(g.m, "InterpolationError")
        ELSE The({
        The({
        IF model.error # "none" THEN fail(g.m, model.error)
        ELSE IF glyphSources = <<>> THEN fail(g.m, "IndexError")
        ELSE The({
        The({
        IF ~buildCFF2 /\ tt.error # "none" THEN fail(g.m, tt.error)
        ELSE The({
        IF c.error # "none" THEN fail(c.m, c.error)
        ELSE [m |-> c.m,
              error |-> "none",
              glyphInfo |->
                  [ttGlyph |-> IF buildCFF2 THEN NoTTGlyph ELSE tt.ttGlyph,
                   gvarVariations |-> IF buildCFF2 THEN <<>> ELSE tt.gvarVariations,
                   charString |-> IF buildCFF2 THEN cs.charString ELSE NoCharString,
                   charStringSupports |-> IF buildCFF2 THEN cs.charStringSupports ELSE <<>>,
                   hasSupports |-> buildCFF2 /\ cs.hasSupports,
                   hasContours |-> defaultLayerGlyph.path.coordinates # <<>>,
                   xAdvance |-> IF defaultLayerGlyph.xAdvance > 0
                                THEN defaultLayerGlyph.xAdvance ELSE 0,
                   xAdvanceVariations |-> prepareXAdvanceVariations(glyphSources),
                   leftSideBearing |-> computeLeftSideBearing(defaultLayerGlyph.path),
                   variableComponents |-> c.components,
                   localAxisTags |-> {localAxisTags[i][2] : i \in 1..Len(localAxisTags)},
                   model |-> model]] :
            cs \in {buildCharString(glyphSources, defaultLayerGlyph, model)},
            c \in {collectComponentInfo(rd, ho, g.m, rd.glyphs[glyphName],
                                        DefaultSourceIndex(model))}}) :
            tt \in {buildTTGlyph(glyphSources, defaultLayerGlyph, model)}}) :
            defaultLayerGlyph \in {glyphSources[DefaultSourceIndex(model)].glyph}}) :
            model \in {IF Len(locations) >= 2 THEN VariationModel(locations) ELSE NoModel}}) :
            locations \in {[i \in 1..Len(normalized) |->
                               mapDictKeys(normalized[i], DMerge(globalAxisTags, localAxisTags))] :
                           normalized \in {prepareLocations(
                               glyphSources,
                               FMerge(DefaultsOf(globalAxisDict), DefaultsOf(localAxisDict)),
                               DMerge(globalAxisDict, localAxisDict))}}}) :
            glyphSources \in {filterActiveSources(rd.glyphs[glyphName].sources)},
            localAxisDict \in {LocalAxisDict(rd.glyphs[glyphName])},
            localAxisTags \in {makeLocalAxisTags(
                                   DMerge(globalAxisDict, LocalAxisDict(rd.glyphs[glyphName])),
                                   globalAxisDict)}}) :
        g \in {getSourceGlyph(rd, m, glyphName, FALSE)}})

(***************************************************************************)
(* Source fonts the model builds                                           *)
(***************************************************************************)
Closed(endPoint) == [endPoint |-> endPoint, isClosed |-> TRUE]

EmptyPath == [contourInfo |-> <<>>, coordinates |-> <<>>]
TriLight == [contourInfo |-> <<Closed(2)>>,
             coordinates |-> <<<<0, 0>>, <<100, 0>>, <<100, 200>>>>]
TriBold == [contourInfo |-> <<Closed(2)>>,
            coordinates |-> <<<<0, 0>>, <<120, 0>>, <<120, 240>>>>]
TriOdd == [contourInfo |-> <<Closed(2)>>,
           coordinates |-> <<<<0, 0>>, <<101, 0>>, <<100, 201>>>>]
TriFar == [contourInfo |-> <<Closed(2)>>,
           coordinates |-> <<<<0, 0>>, <<40000, 0>>, <<100, 200>>>>]
TwoContours == [contourInfo |-> <<Closed(0), Closed(2)>>,
                coordinates |-> <<<<0, 0>>, <<120, 0>>, <<120, 240>>>>]

Identity == [f \in TransformFields |-> IF f \in {"scaleX", "scaleY"} THEN 1 ELSE 0]

Compo(name, transformation, location) ==
    [name |-> name, transformation |-> transformation, location |-> location]

Layer(path, xAdvance, components) ==
    [path |-> path, xAdvance |-> xAdvance, components |-> components]

Source(location, glyph) == [location |-> location, inactive |-> FALSE, glyph |-> glyph]

Glyph(axes, sources) == [axes |-> axes, sources |-> sources]

AtWeight(w) == [a \in {"weight"} |-> w]
AtWidth(w) == [a \in {"width"} |-> w]
AtFlex(v) == [a \in {"flex"} |-> v]
FlexAxis == [name |-> "flex", minValue |-> 0, defaultValue |-> 0, maxValue |-> 1]

G_Static == Glyph(<<>>, <<Source(<<>>, Layer(TriLight, 500, <<>>))>>)
G_Wght == Glyph(<<>>, <<Source(AtWeight(0), Layer(TriLight, 500, <<>>)),
                        Source(AtWeight(1), Layer(TriBold, 600, <<>>))>>)
G_WghtRev == Glyph(<<>>, <<Source(AtWeight(1), Layer(TriBold, 600, <<>>)),
                           Source(AtWeight(0), Layer(TriLight, 500, <<>>))>>)
G_BadContours == Glyph(<<>>, <<Source(AtWeight(0), Layer(TriLight, 500, <<>>)),
                               Source(AtWeight(1), Layer(TwoContours, 600, <<>>))>>)
G_DupLoc == Glyph(<<>>, <<Source(AtWeight(0), Layer(TriLight, 500, <<>>)),
                          Source(<<>>, Layer(TriBold, 600, <<>>))>>)
G_BigDelta == Glyph(<<>>, <<Source(AtWeight(0), Layer(TriLight, 500, <<>>)),
                            Source(AtWeight(1), Layer(TriFar, 600, <<>>))>>)
\* Masters at the default, at width 2 (normalized 1) and at width 1 (normalized
\* 1/2) with weight 1: the second master weighs 1/2 at the third's location
G_Frac == Glyph(<<>>, <<Source(<<>>, Layer(TriLight, 500, <<>>)),
                        Source(AtWidth(2), Layer(TriOdd, 501, <<>>)),
                        Source([a \in {"weight", "width"} |-> 1], Layer(TriBold, 600, <<>>))>>)
G_Local == Glyph(<<FlexAxis>>, <<Source(AtFlex(0), Layer(TriLight, 500, <<>>)),
                                 Source(AtFlex(1), Layer(TriBold, 500, <<>>))>>)
G_Compo(base) ==
    Glyph(<<>>, <<Source(<<>>, Layer(EmptyPath, 500, <<Compo(base, Identity, <<>>)>>))>>)
\* A composite that sets the axis "flex" of its base
G_CompoFlex(base, v) ==
    Glyph(<<>>, <<Source(<<>>, Layer(EmptyPath, 500, <<Compo(base, Identity, AtFlex(v))>>))>>)
G_Compo2(b1, b2) ==
    Glyph(<<>>, <<Source(<<>>, Layer(EmptyPath, 500,
                     <<Compo(b1, Identity, <<>>), Compo(b2, Identity, <<>>)>>))>>)
G_CompoMismatch(b1, b2) ==
    Glyph(<<>>, <<Source(AtWeight(0), Layer(EmptyPath, 500, <<Compo(b1, Identity, <<>>)>>)),
                  Source(AtWeight(1), Layer(EmptyPath, 500, <<Compo(b2, Identity, <<>>)>>))>>)
G_CompoMoved(base) ==
    Glyph(<<>>, <<Source(AtWeight(0), Layer(EmptyPath, 500, <<Compo(base, Identity, <<>>)>>)),
                  Source(AtWeight(1), Layer(EmptyPath, 600,
                     <<Compo(base, [Identity EXCEPT !["translateX"] = 30], <<>>)>>))>>)
\* As G_CompoMoved, the default source listed last
G_CompoMovedRev(base) ==
    Glyph(<<>>, <<Source(AtWeight(1), Layer(EmptyPath, 600,
                     <<Compo(base, [Identity EXCEPT !["translateX"] = 30], <<>>)>>)),
                  Source(AtWeight(0), Layer(EmptyPath, 500, <<Compo(base, Identity, <<>>)>>))>>)
\* The same scaled component, at the same location of its base, in two sources
Scaled == [Identity EXCEPT !["scaleX"] = 2]
G_CompoConst(base, loc) ==
    Glyph(<<>>, <<Source(AtWeight(0), Layer(EmptyPath, 500, <<Compo(base, Scaled, loc)>>)),
                  Source(AtWeight(1), Layer(EmptyPath, 500, <<Compo(base, Scaled, loc)>>))>>)
\* A component whose location on its base's axis "flex" differs between sources
G_CompoFlexVar(base) ==
    Glyph(<<>>, <<Source(AtWeight(0), Layer(EmptyPath, 500, <<Compo(base, Identity, AtFlex(0))>>)),
                  Source(AtWeight(1), Layer(EmptyPath, 500, <<Compo(base, Identity, AtFlex(1))>>))>>)
\* A component that is rotated in the second source
G_CompoTurned(base) ==
    Glyph(<<>>, <<Source(AtWeight(0), Layer(EmptyPath, 500, <<Compo(base, Identity, <<>>)>>)),
                  Source(AtWeight(1), Layer(EmptyPath, 500,
                     <<Compo(base, [Identity EXCEPT !["rotation"] = 90], <<>>)>>))>>)
\* Sources with one and with two components, in either order
G_CompoCount(base) ==
    Glyph(<<>>, <<Source(AtWeight(0), Layer(EmptyPath, 500, <<Compo(base, Identity, <<>>)>>)),
                  Source(AtWeight(1), Layer(EmptyPath, 500,
                     <<Compo(base, Identity, <<>>), Compo(base, Identity, <<>>)>>))>>)
G_CompoCountRev(base) ==
    Glyph(<<>>, <<Source(AtWeight(0), Layer(EmptyPath, 500,
                     <<Compo(base, Identity, <<>>), Compo(base, Identity, <<>>)>>)),
                  Source(AtWeight(1), Layer(EmptyPath, 500, <<Compo(base, Identity, <<>>)>>))>>)
\* Sources at one location whose components name different bases
G_CompoMismatchDup(b1, b2) ==
    Glyph(<<>>, <<Source(AtWeight(0), Layer(EmptyPath, 500, <<Compo(b1, Identity, <<>>)>>)),
                  Source(<<>>, Layer(EmptyPath, 500, <<Compo(b2, Identity, <<>>)>>))>>)
\* No source at the default location
G_NoBase == Glyph(<<>>, <<Source(AtWeight(1), Layer(TriLight, 500, <<>>)),
                          Source(AtWidth(2), Layer(TriBold, 600, <<>>))>>)
\* Sources at one location with different contours
G_DupLocBad == Glyph(<<>>, <<Source(AtWeight(0), Layer(TriLight, 500, <<>>)),
                             Source(<<>>, Layer(TwoContours, 600, <<>>))>>)
\* A glyph with the local axis "flex" whose sources also vary along "weight"
G_LocalWght == Glyph(<<FlexAxis>>, <<Source(<<>>, Layer(TriLight, 500, <<>>)),
                                     Source(AtWeight(1), Layer(TriBold, 600, <<>>)),
                                     Source(AtFlex(1), Layer(TriBold, 500, <<>>))>>)

\* Components that set the axis "flex", the axis "weight", "flex" once more
\* and both axes of their base
G_CompoAxes(base) ==
    Glyph(<<>>, <<Source(<<>>, Layer(EmptyPath, 500,
                     <<Compo(base, Identity, AtFlex(1)),
                       Compo(base, Identity, AtWeight(1)),
                       Compo(base, Identity, AtFlex(1)),
                       Compo(base, Identity, [a \in {"flex", "weight"} |-> 1])>>))>>)
\* A composite that sets the axis "weight" of its base
G_CompoWeight(base) ==
    Glyph(<<>>, <<Source(<<>>, Layer(EmptyPath, 500, <<Compo(base, Identity, AtWeight(1))>>))>>)

\* A glyph whose only source off the default location is inactive
G_InactiveWght ==
    Glyph(<<>>, <<Source(<<>>, Layer(TriLight, 500, <<>>)),
                  [Source(AtWeight(1), Layer(TriBold, 600, <<>>)) EXCEPT !.inactive = TRUE]>>)

\* reader.getGlyph(name) is None for the names a font has no glyph for
Absent == [isAbsent |-> TRUE]

ChoicesNotdef == {Absent, G_Static}
OutlineChoicesA ==
    {G_Wght, G_WghtRev, G_BadContours, G_DupLoc, G_BigDelta, G_Frac, G_NoBase, G_DupLocBad}
ComponentChoicesA ==
    {G_Compo("B"), G_Compo("A"), G_Compo2("C", "B"), G_Compo2("B", "C"),
     G_CompoMismatch("B", "C"), G_CompoMoved("B"), G_CompoFlex("B", 0), G_CompoFlex("B", 1)}
ChoicesB == {Absent, G_Static, G_Wght, G_BadContours, G_Local, G_Compo("C"), G_Compo("A")}
ChoicesC == {Absent, G_Static, G_Wght}
VariedChoicesA ==
    {G_Compo("B"), G_CompoFlex("B", 0), G_CompoConst("B", <<>>), G_CompoConst("B", AtFlex(1)),
     G_CompoFlexVar("B"), G_CompoTurned("B"), G_CompoMovedRev("B"), G_CompoCount("B"),
     G_CompoCountRev("B"), G_CompoMismatchDup("B", "C"), G_CompoAxes("B")}
VariedChoicesB ==
    {Absent, G_Static, G_Local, G_LocalWght, G_InactiveWght, G_CompoWeight("C")}

\* The glyphs of a font: a function on the names that have a glyph
FontGlyphs(n, a, b, c) ==
    LET all == [x \in GlyphNames |->
                   IF x = ".notdef" THEN n ELSE IF x = "A" THEN a ELSE IF x = "B" THEN b ELSE c]
    IN  [x \in {y \in GlyphNames : all[y] # Absent} |-> all[x]]

\* reader.getGlyphMap(): the code points of the names in the glyph map
CodePointsOf(name) ==
    IF name = "A" THEN {65} ELSE IF name = "B" THEN {66} ELSE {}

GlyphMapOn(names) == [x \in names |-> CodePointsOf(x)]

\* Fonts whose glyph A is an outline glyph, and fonts whose glyph A is a
\* composite of B and C; the glyph map names the font's glyphs or only A
OutlineFonts ==
    {[glyphs |-> FontGlyphs(n, a, G_Static, Absent), glyphMap |-> GlyphMapOn(names)] :
        n \in ChoicesNotdef, a \in OutlineChoicesA,
        names \in {{".notdef", "A", "B"}, {"A", "B"}, {"A"}}}

CompositeFonts ==
    {[glyphs |-> FontGlyphs(G_Static, a, b, c), glyphMap |-> GlyphMapOn(names)] :
        a \in ComponentChoicesA, b \in ChoicesB, c \in ChoicesC,
        names \in {GlyphNames, {"A"}}}

\* Fonts whose glyph A is a composite of B in two sources
VariedFonts ==
    {[glyphs |-> FontGlyphs(G_Static, a, b, G_Static), glyphMap |-> GlyphMapOn(GlyphNames)] :
        a \in VariedChoicesA, b \in VariedChoicesB}

Fonts == OutlineFonts \cup CompositeFonts \cup VariedFonts

Requests ==
    {<<>>, <<"A">>, <<"A", "B">>, <<"B", "A">>, <<"A", ".notdef">>, <<".notdef", "A">>}

HashOrders == {<<".notdef", "A", "B", "C">>, <<"C", "B", "A", ".notdef">>}

(***************************************************************************)
(* The build: main_async drives Builder.setup, Builder.prepareGlyphs (one  *)
(* action per iteration of its loop), Builder.buildFont and ttFont.save.   *)
(***************************************************************************)
VARIABLES
    reader,               \* the source font: [glyphs, glyphMap]
    requestedGlyphNames,  \* Builder.requestedGlyphNames
    buildCFF2,            \* Builder.buildCFF2
    hashOrder,            \* the iteration order of this run's sets of names
    pc,                   \* "setup", "prepare", "buildFont", "save", "done", "failed"
    glyphOrder,           \* Builder.glyphOrder
    scanIndex,            \* the position of prepareGlyphs' loop in glyphOrder
    glyphInfos,           \* Builder.glyphInfos, a function on the names stored
    cmap,                 \* Builder.cmap, a function on the code points mapped
    memo,                 \* the caches and the call counts (see EmptyMemo)
    error,                \* the exception that left main_async, or "none"
    compileError,         \* name -> how prepareOneGlyph ended for it ("" before)
    discovered,           \* the names ensureGlyphDependency appended, in order
    ttFont,               \* whether buildFont has returned the font
    outputWritten,        \* whether ttFont.save has written the output file
    varcTable,            \* what buildVARC has put into the font's VARC table
    outputAction,         \* a workflow output action (see ConstructedActions)
    axesGiven,            \* [globalAxes, glyphAxes] handed to the axis tag assignment
    axisTagRuns           \* the [localAxisTags, axisTags] of the assignments made

vars == <<reader, requestedGlyphNames, buildCFF2, hashOrder, pc, glyphOrder, scanIndex,
          glyphInfos, cmap, memo, error, compileError, discovered, ttFont, outputWritten,
          varcTable, outputAction, axesGiven, axisTagRuns>>

inputs ==
    <<reader, requestedGlyphNames, buildCFF2, hashOrder, axesGiven, axisTagRuns, outputAction>>

\* No workflow output action is looked at
NoOutputAction == [kind |-> "none"]

\* No VARC table: no component written, no item in the AxisIndicesList
NoVARC == [varComponents |-> <<>>, axisIndicesList |-> <<>>]

InitBuilder ==
    /\ pc = "setup"
    /\ glyphOrder = <<>>
    /\ scanIndex = 1
    /\ glyphInfos = <<>>
    /\ cmap = <<>>
    /\ memo = EmptyMemo
    /\ error = "none"
    /\ compileError = [n \in GlyphNames |-> ""]
    /\ discovered = <<>>
    /\ ttFont = FALSE
    /\ outputWritten = FALSE
    /\ varcTable = NoVARC

Init ==
    /\ reader \in Fonts
    /\ requestedGlyphNames \in Requests
    /\ buildCFF2 \in BOOLEAN
    /\ hashOrder \in HashOrders
    /\ InitBuilder
    /\ axesGiven = [globalAxes |-> GlobalAxes, glyphAxes |-> <<>>]
    /\ axisTagRuns = <<>>
    /\ outputAction = NoOutputAction

\* Builder.setup: the initial glyph order
SetupGlyphOrder(requested, glyphMap) ==
    LET order == IF requested # <<>> THEN requested ELSE SortedNames(DOMAIN glyphMap)
    IN  IF ~SeqContains(order, ".notdef") THEN <<".notdef">> \o order ELSE order

Setup ==
    /\ pc = "setup"
    /\ glyphOrder' = SetupGlyphOrder(requestedGlyphNames, reader.glyphMap)
    /\ pc' = "prepare"
    /\ UNCHANGED <<inputs, varcTable, scanIndex, glyphInfos, cmap, memo, error, compileError,
                   discovered, ttFont, outputWritten>>

\* ensureGlyphDependency appending the name whether or not it is scheduled
ensureGlyphDependencies_Always(order, infos, names) == order \o names

\* Builder.ensureGlyphDependency for the bases of the components, in order
RECURSIVE ensureGlyphDependencies(_, _, _)
ensureGlyphDependencies(order, infos, names) ==
    IF names = <<>> THEN order
    ELSE ensureGlyphDependencies(
             IF Head(names) \notin DOMAIN infos /\ ~SeqContains(order, Head(names))
             THEN Append(order, Head(names)) ELSE order,
             infos, Tail(names))

\* RecoveredErrors with VariationModelError left out of the except clause
RecoveredErrors_NoVariationModel == {"InterpolationError", "MissingBaseGlyphError"}

\* RecoveredErrors with InterpolationError left out of the except clause
RecoveredErrors_NoInterpolation == {"MissingBaseGlyphError", "VariationModelError"}

\* prepareGlyphs' "except (InterpolationError, MissingBaseGlyphError, VariationModelError)"
RecoveredErrors == {"InterpolationError", "MissingBaseGlyphError", "VariationModelError"}

\* prepareGlyphs leaving the cmap as it is
CmapUpdate_Never(map, codePoints, glyphName) == map

\* self.cmap.update((codePoint, glyphName) for codePoint in codePoints)
CmapUpdate(map, codePoints, glyphName) ==
    [c \in DOMAIN map \cup codePoints |-> IF c \in codePoints THEN glyphName ELSE map[c]]

\* self.glyphInfos[glyphName] = glyphInfo
StoreGlyphInfo(infos, glyphName, glyphInfo) ==
    [n \in DOMAIN infos \cup {glyphName} |-> IF n = glyphName THEN glyphInfo ELSE infos[n]]

CurrentGlyph == glyphOrder[scanIndex]

Compiled == prepareOneGlyph(reader, hashOrder, buildCFF2, memo, CurrentGlyph)

Scanning == pc = "prepare" /\ scanIndex <= Len(glyphOrder)

\* A loop iteration for a name that is not in the glyph map: a placeholder
PrepareUnmapped ==
    /\ Scanning
    /\ CurrentGlyph \notin DOMAIN reader.glyphMap
    /\ glyphInfos' = StoreGlyphInfo(glyphInfos, CurrentGlyph, PlaceholderGlyphInfo(buildCFF2))
    /\ scanIndex' = scanIndex + 1
    /\ UNCHANGED <<inputs, varcTable, pc, glyphOrder, cmap, memo, error, compileError, discovered,
                   ttFont, outputWritten>>

\* A loop iteration in which prepareOneGlyph returns a GlyphInfo
PrepareCompiled ==
    /\ Scanning
    /\ CurrentGlyph \in DOMAIN reader.glyphMap
    /\ \E c \in {Compiled} :
        /\ c.error = "none"
        /\ \E order \in {ensureGlyphDependencies(
                            glyphOrder, glyphInfos,
                            [k \in 1..Len(c.glyphInfo.variableComponents) |->
                                c.glyphInfo.variableComponents[k].name])} :
            /\ glyphOrder' = order
            /\ discovered' = discovered \o SubSeq(order, Len(glyphOrder) + 1, Len(order))
        /\ glyphInfos' = StoreGlyphInfo(glyphInfos, CurrentGlyph, c.glyphInfo)
        /\ memo' = c.m
    /\ cmap' = CmapUpdate(cmap, reader.glyphMap[CurrentGlyph], CurrentGlyph)
    /\ compileError' = [compileError EXCEPT ![CurrentGlyph] = "none"]
    /\ scanIndex' = scanIndex + 1
    /\ UNCHANGED <<inputs, varcTable, pc, error, ttFont, outputWritten>>

\* A loop iteration in which prepareOneGlyph raises an error that is caught
PrepareRecovered ==
    /\ Scanning
    /\ CurrentGlyph \in DOMAIN reader.glyphMap
    /\ \E c \in {Compiled} :
        /\ c.error \in RecoveredErrors
        /\ memo' = c.m
        /\ compileError' = [compileError EXCEPT ![CurrentGlyph] = c.error]
    /\ cmap' = CmapUpdate(cmap, reader.glyphMap[CurrentGlyph], CurrentGlyph)
    /\ glyphInfos' = StoreGlyphInfo(glyphInfos, CurrentGlyph, PlaceholderGlyphInfo(buildCFF2))
    /\ scanIndex' = scanIndex + 1
    /\ UNCHANGED <<inputs, varcTable, pc, glyphOrder, error, discovered, ttFont, outputWritten>>

\* A loop iteration in which prepareOneGlyph raises an error that is not caught
PrepareRaised ==
    /\ Scanning
    /\ CurrentGlyph \in DOMAIN reader.glyphMap
    /\ \E c \in {Compiled} :
        /\ c.error \notin RecoveredErrors \cup {"none"}
        /\ memo' = c.m
        /\ compileError' = [compileError EXCEPT ![CurrentGlyph] = c.error]
        /\ error' = c.error
    /\ cmap' = CmapUpdate(cmap, reader.glyphMap[CurrentGlyph], CurrentGlyph)
    /\ pc' = "failed"
    /\ UNCHANGED <<inputs, varcTable, glyphOrder, scanIndex, glyphInfos, discovered, ttFont, outputWritten>>

\* The loop of prepareGlyphs ends: build() goes on to buildFont
PrepareDone ==
    /\ pc = "prepare"
    /\ scanIndex > Len(glyphOrder)
    /\ pc' = "buildFont"
    /\ UNCHANGED <<inputs, varcTable, glyphOrder, scanIndex, glyphInfos, cmap, memo, error,
                   compileError, discovered, ttFont, outputWritten>>

\* A KeyboardInterrupt during setup, while the glyphs are prepared or while
\* the font is built: prepareGlyphs re-raises it, nothing else catches it
Interrupt ==
    /\ pc \in {"setup", "prepare", "buildFont"}
    /\ error' = "KeyboardInterrupt"
    /\ pc' = "failed"
    /\ UNCHANGED <<inputs, varcTable, glyphOrder, scanIndex, glyphInfos, cmap, memo, compileError,
                   discovered, ttFont, outputWritten>>

\* The axis tags buildFont hands to buildVARC: the global axes' tags, then
\* the sorted local axis tags of all glyph infos
FontAxisTags(infos) ==
    [i \in 1..Len(GlobalAxes) |-> GlobalAxes[i].tag]
    \o SortedTags(UNION {infos[n].localAxisTags : n \in DOMAIN infos})

\* ComponentInfo.addLocationToComponent: "assert self.location", then
\* axisTags.index(k) for the tags of the location's axes
addLocationToComponentError(compoInfo, axisTags) ==
    IF "HAVE_AXES" \notin compoInfo.flags THEN "none"
    ELSE IF DOMAIN compoInfo.location = {} THEN "AssertionError"
    ELSE IF \E t \in DOMAIN mapDictKeys(compoInfo.location, compoInfo.baseAxisTags) :
                ~SeqContains(axisTags, t)
         THEN "ValueError"
    ELSE "none"

\* addTransformationToComponent taking the transform of the first source
addTransformationToComponent_FirstSource(compoInfo) ==
    [transform |-> [f \in TransformFields |-> compoInfo.transform[f][1]],
     hasTransformVarIndex |-> "TRANSFORM_HAS_VARIATION" \in compoInfo.flags,
     storedFields |-> {}]

\* ComponentInfo.addTransformationToComponent: the transform of the default
\* source, and whether the masters' values go to the variation store
addTransformationToComponent(compoInfo) ==
    [transform |-> [f \in TransformFields |->
                       compoInfo.transform[f][compoInfo.defaultSourceIndex]],
     hasTransformVarIndex |-> "TRANSFORM_HAS_VARIATION" \in compoInfo.flags,
     storedFields |->
         IF "TRANSFORM_HAS_VARIATION" \in compoInfo.flags
         THEN {VAR_TRANSFORM_MAPPING[i].name : i \in
                  {j \in 1..Len(VAR_TRANSFORM_MAPPING) :
                      VAR_TRANSFORM_MAPPING[j].flag \in compoInfo.flags}}
         ELSE {}]

\* ComponentInfo.addLocationToComponent, when it does not raise: whether the
\* axis values are written, the axis indices and the default source's values
\* in the order of the sorted tags, and whether the masters' values go to
\* the variation store
addLocationToComponent(compoInfo, axisTags) ==
    IF "HAVE_AXES" \notin compoInfo.flags
    THEN [written |-> FALSE, axisIndices |-> <<>>, axisValues |-> <<>>,
          hasAxisValuesVarIndex |-> FALSE]
    ELSE The({
        [written |-> TRUE,
         axisIndices |-> [i \in 1..Len(tags) |-> IndexOf(axisTags, tags[i]) - 1],
         axisValues |-> [i \in 1..Len(tags) |-> location[tags[i]][compoInfo.defaultSourceIndex]],
         hasAxisValuesVarIndex |-> "AXIS_VALUES_HAVE_VARIATION" \in compoInfo.flags] :
        location \in {mapDictKeys(compoInfo.location, compoInfo.baseAxisTags)},
        tags \in {SortedTags(DOMAIN mapDictKeys(compoInfo.location, compoInfo.baseAxisTags))}})

\* addLocationToComponent always adding an entry to axisIndicesMapping
axisIndicesMappingWith_Always(axisIndicesMapping, axisIndices) ==
    Append(axisIndicesMapping, <<axisIndices, Len(axisIndicesMapping)>>)

\* addLocationToComponent's use of axisIndicesMapping: "if axisIndicesIndex
\* is None: ... axisIndicesMapping[axisIndices] = len(axisIndicesMapping)"
axisIndicesMappingWith(axisIndicesMapping, axisIndices) ==
    IF DHas(axisIndicesMapping, axisIndices) THEN axisIndicesMapping
    ELSE Append(axisIndicesMapping, <<axisIndices, Len(axisIndicesMapping)>>)

\* The component infos buildVARC goes through: those of the glyphs of the
\* coverage, in glyph order, each glyph's in component order
RECURSIVE CoverageComponents(_, _)
CoverageComponents(order, infos) ==
    IF order = <<>> THEN <<>>
    ELSE [k \in 1..Len(infos[Head(order)].variableComponents) |->
             [glyphName |-> Head(order), index |-> k,
              compoInfo |-> infos[Head(order)].variableComponents[k]]]
         \o CoverageComponents(Tail(order), infos)

\* Builder.buildVARC(axisTags), when it does not raise: the axisIndicesIndex
\* of every component that has one, and the items of the AxisIndicesList
RECURSIVE buildVARC(_, _, _, _)
buildVARC(components, axisTags, axisIndicesMapping, varComponents) ==
    IF components = <<>>
    THEN [varComponents |-> varComponents, axisIndicesList |-> DKeys(axisIndicesMapping)]
    ELSE The({
        IF ~loc.written
        THEN buildVARC(Tail(components), axisTags, axisIndicesMapping, varComponents)
        ELSE The({
            buildVARC(Tail(components), axisTags, mapping,
                      Append(varComponents,
                             [glyphName |-> Head(components).glyphName,
                              index |-> Head(components).index,
                              axisIndices |-> loc.axisIndices,
                              axisIndicesIndex |-> DGet(mapping, loc.axisIndices)])) :
            mapping \in {axisIndicesMappingWith(axisIndicesMapping, loc.axisIndices)}}) :
        loc \in {addLocationToComponent(Head(components).compoInfo, axisTags)}})

\* _prepareHVVAR: the advance deltas and supports of a glyph, the deltas
\* rounded by otRound as they are solved
prepareHVVAR(glyphInfo) ==
    IF ~glyphInfo.model.isModel
    THEN [deltas |-> <<<<R(glyphInfo.xAdvanceVariations[1])>>>>,
          supports |-> <<<<>>>>]
    ELSE [deltas |-> getDeltas(glyphInfo.model,
                               [i \in 1..Len(glyphInfo.xAdvanceVariations) |->
                                   <<R(glyphInfo.xAdvanceVariations[i])>>],
                               TRUE),
          supports |-> glyphInfo.model.supports]

\* prepareCFFVarData's vsindexMap: the distinct non-empty support tuples of
\* the glyph infos, in the order of their first use
vsindexMap(order, infos) ==
    [i \in 1..Len(SelectSeq([k \in 1..Len(order) |-> k],
                            LAMBDA k : /\ infos[order[k]].hasSupports
                                       /\ \A j \in 1..(k - 1) :
                                            infos[order[j]].hasSupports =>
                                                infos[order[j]].charStringSupports
                                                    # infos[order[k]].charStringSupports)) |->
        infos[order[SelectSeq([k \in 1..Len(order) |-> k],
                              LAMBDA k : /\ infos[order[k]].hasSupports
                                         /\ \A j \in 1..(k - 1) :
                                              infos[order[j]].hasSupports =>
                                                  infos[order[j]].charStringSupports
                                                      # infos[order[k]].charStringSupports)[i]]
             ].charStringSupports]

\* prepareCFFVarData(charStrings, charStringSupports): what it leaves of the
\* glyph infos, whose charstrings it is handed; "charString.program[:0] =
\* [vsindex, "vsindex"]" for the glyphs whose vsindex is not 0
prepareCFFVarData(order, infos) ==
    [n \in DOMAIN infos |->
        IF infos[n].hasSupports
           /\ IndexOf(vsindexMap(order, infos), infos[n].charStringSupports) - 1 # 0
        THEN [infos[n] EXCEPT !.charString.program =
                 <<[operator |-> "vsindex",
                    operand |-> IndexOf(vsindexMap(order, infos),
                                        infos[n].charStringSupports) - 1]>> \o @]
        ELSE infos[n]]

\* The glyph infos when buildFont has set up the outlines
SetupOutlines(order, infos) == IF buildCFF2 THEN prepareCFFVarData(order, infos) ELSE infos

\* The first exception buildFont raises for these glyph infos, or "none"
buildFontError(order, infos) ==
    LET axisTags == FontAxisTags(infos)
        errorsOf(n) ==
            LET comps == infos[n].variableComponents
            IN  SelectSeq([k \in 1..Len(comps) |-> addLocationToComponentError(comps[k], axisTags)],
                          LAMBDA e : e # "none")
        failing == SelectSeq(order, LAMBDA n : errorsOf(n) # <<>>)
    IN  IF failing = <<>> THEN "none" ELSE errorsOf(failing[1])[1]

\* Builder.buildFont returns the font
BuildFont ==
    /\ pc = "buildFont"
    /\ buildFontError(glyphOrder, glyphInfos) = "none"
    /\ glyphInfos' = SetupOutlines(glyphOrder, glyphInfos)
    /\ varcTable' = buildVARC(CoverageComponents(glyphOrder, glyphInfos),
                              FontAxisTags(glyphInfos), <<>>, <<>>)
    /\ ttFont' = TRUE
    /\ pc' = "save"
    /\ UNCHANGED <<inputs, glyphOrder, scanIndex, cmap, memo, error,
                   compileError, discovered, outputWritten>>

\* Builder.buildFont raises
BuildFontRaised ==
    /\ pc = "buildFont"
    /\ \E e \in {buildFontError(glyphOrder, glyphInfos)} :
        /\ e # "none"
        /\ error' = e
    /\ glyphInfos' = SetupOutlines(glyphOrder, glyphInfos)
    /\ pc' = "failed"
    /\ UNCHANGED <<inputs, varcTable, glyphOrder, scanIndex, cmap, memo,
                   compileError, discovered, ttFont, outputWritten>>

\* Save as the body of a "finally:" clause: the output is written whether
\* or not setup and build have raised
Save_EvenAfterFailure ==
    /\ pc \in {"save", "failed"}
    /\ ~outputWritten
    /\ outputWritten' = TRUE
    /\ pc' = IF pc = "save" THEN "done" ELSE pc
    /\ UNCHANGED <<inputs, varcTable, glyphOrder, scanIndex, glyphInfos, cmap, memo, error,
                   compileError, discovered, ttFont>>

\* main_async's last statement: ttFont.save(outputFontPath)
Save ==
    /\ pc = "save"
    /\ ttFont
    /\ outputWritten' = TRUE
    /\ pc' = "done"
    /\ UNCHANGED <<inputs, varcTable, glyphOrder, scanIndex, glyphInfos, cmap, memo, error,
                   compileError, discovered, ttFont>>

Next ==
    \/ Setup
    \/ PrepareUnmapped
    \/ PrepareCompiled
    \/ PrepareRecovered
    \/ PrepareRaised
    \/ PrepareDone
    \/ Interrupt
    \/ BuildFont
    \/ BuildFontRaised
    \/ Save

Spec == Init /\ [][Next]_vars

(***************************************************************************)
(* The axis tag assignment of prepareOneGlyph, applied to the global axes  *)
(* of a font and the local axes of one glyph, once per compilation of the  *)
(* glyph.                                                                  *)
(***************************************************************************)
\* prepareOneGlyph's localAxisDict, axisDict, localAxisTags and axisTags for
\* a font with these global axes and a glyph with these local axes
glyphAxisTags(globalAxes, glyphAxes) ==
    The({[localAxisTags |-> localAxisTags,
          axisTags |-> DMerge([i \in 1..Len(globalAxes) |->
                                  <<globalAxes[i].name, globalAxes[i].tag>>],
                              localAxisTags)] :
         localAxisTags \in
             {makeLocalAxisTags(
                  DMerge([i \in 1..Len(globalAxes) |->
                             <<globalAxes[i].name, applyAxisMapToAxisValues(globalAxes[i])>>],
                         LocalAxisDict([axes |-> glyphAxes])),
                  [i \in 1..Len(globalAxes) |->
                      <<globalAxes[i].name, applyAxisMapToAxisValues(globalAxes[i])>>])}})

GlobalAxis(name, tag) ==
    [name |-> name, tag |-> tag, minValue |-> 0, defaultValue |-> 0, maxValue |-> 1,
     mapping |-> <<>>]

LocalAxis(name) == [name |-> name, minValue |-> 0, defaultValue |-> 0, maxValue |-> 1]

\* The global axes of the fonts: none, the usual tags, and tags of the
\* form the local axes are given
GivenGlobalAxes ==
    {<<>>,
     <<GlobalAxis("weight", "wght")>>,
     <<GlobalAxis("weight", "wght"), GlobalAxis("width", "wdth")>>,
     <<GlobalAxis("weight", "V000")>>,
     <<GlobalAxis("weight", "wght"), GlobalAxis("width", "V001")>>}

MaxLocalAxes == 3

\* The local axes of a glyph: up to MaxLocalAxes different names, in any
\* order, one of them also the name of a global axis
GivenGlyphAxes ==
    {[i \in 1..Len(names) |-> LocalAxis(names[i])] :
        names \in {q \in UNION {[1..k -> {"flex", "bend", "weight"}] : k \in 0..MaxLocalAxes} :
                      \A i, j \in 1..Len(q) : q[i] = q[j] => i = j}}

\* The compilations of the glyph that are looked at
MaxRuns == 2

InitAxisTags ==
    /\ reader = [glyphs |-> <<>>, glyphMap |-> <<>>]
    /\ requestedGlyphNames = <<>>
    /\ buildCFF2 = FALSE
    /\ hashOrder = <<".notdef", "A", "B", "C">>
    /\ InitBuilder
    /\ axesGiven \in [globalAxes : GivenGlobalAxes, glyphAxes : GivenGlyphAxes]
    /\ axisTagRuns = <<>>
    /\ outputAction = NoOutputAction

\* One compilation of the glyph assigns the tags of its axes
AssignAxisTags ==
    /\ Len(axisTagRuns) < MaxRuns
    /\ axisTagRuns' = Append(axisTagRuns,
                             glyphAxisTags(axesGiven.globalAxes, axesGiven.glyphAxes))
    /\ UNCHANGED <<reader, requestedGlyphNames, buildCFF2, hashOrder, pc, glyphOrder,
                   scanIndex, glyphInfos, cmap, memo, error, compileError, discovered,
                   ttFont, outputWritten, varcTable, axesGiven, outputAction>>

NextAxisTags == AssignAxisTags

SpecAxisTags == InitAxisTags /\ [][NextAxisTags]_vars

(***************************************************************************)
(* The workflow output actions compile-varc (FontraCompileAction),         *)
(* compile-fontmake (CompileFontMakeAction) and compile-fontc              *)
(* (CompileFontCAction, which overrides compileFromDesignspace).  An       *)
(* action is a record:                                                     *)
(*   kind, destination [stem, suffix], options (a dict), isVariable        *)
(*   (whether the input has axes): what it is constructed with and fed     *)
(*   input         "None" or the backend connect() was given               *)
(*   context       "none", "active" or "exited": the connect() context     *)
(*   connects, processCalls   how often connect() and process() were used  *)
(*   error         the exception of the last process() or body, or "none"  *)
(*   exported      whether copyFont has written the temporary source       *)
(*   built         whether a Builder has been set up and run               *)
(*   command       the arguments handed to fontmake or run as a process    *)
(*   outputWritten whether the output font was produced                    *)
(* Every command line argument is a tuple of strings: <<word>>,            *)
(* <<"--", option>> for "--option", <<directory, file name>> for a path.   *)
(***************************************************************************)
ActionKinds == {"compile-varc", "compile-fontmake", "compile-fontc"}

\* The parameters of compileFromDesignspace behind self, per class
compileFromDesignspaceParameters(kind) ==
    IF kind = "compile-fontc"
    THEN <<"designspacePath", "outputFontPath", "isVariable", "extraArguments">>
    ELSE <<"sourcePath", "outputFontPath", "extraArguments">>

\* Python binding positional arguments to the parameters of a method: a
\* TypeError unless there is one argument for each parameter
BindArguments(parameters, arguments) ==
    IF Len(arguments) # Len(parameters)
    THEN [error |-> "TypeError", bound |-> <<>>]
    ELSE [error |-> "none",
          bound |-> [i \in 1..Len(parameters) |-> <<parameters[i], arguments[i]>>]]

\* process: "extraArguments.append(f'--{option}'); if value: ...append(value)"
RECURSIVE extraArgumentsOf(_)
extraArgumentsOf(options) ==
    IF options = <<>> THEN <<>>
    ELSE <<<<"--", Head(options)[1]>>>>
         \o (IF Head(options)[2] # "" THEN <<<<Head(options)[2]>>>> ELSE <<>>)
         \o extraArgumentsOf(Tail(options))

\* process: outputDir / self.destination, and the temporary source
outputFontPathOf(action) == <<"outputDir", action.destination.stem, action.destination.suffix>>

sourcePathOf(action) ==
    <<"tmpDir", "temp", IF action.isVariable THEN ".designspace" ELSE ".ufo">>

\* CompileFontMakeAction.compileFromDesignspace: the arguments of fontmake_main
fontmakeArguments(sourcePath, outputFontPath, extraArguments) ==
    <<<<IF sourcePath[3] = ".ufo" THEN "-u" ELSE "-m">>,
      sourcePath,
      <<"-o">>,
      <<IF outputFontPath[3] # ".ttf"
        THEN (IF sourcePath[3] = ".designspace" THEN "variable-cff2" ELSE "otf")
        ELSE (IF sourcePath[3] = ".designspace" THEN "variable" ELSE "ttf")>>,
      <<"--output-path">>,
      outputFontPath>> \o extraArguments

\* CompileFontCAction.compileFromDesignspace: the command subprocess.run runs
fontcArguments(designspacePath, outputFontPath, isVariable, extraArguments) ==
    <<<<"fontc">>, <<"--output-file">>, outputFontPath, designspacePath>> \o extraArguments

\* self.compileFromDesignspace(sourcePath, outputFontPath, extraArguments) as
\* process calls it, dispatched to the class of the action: [error, command]
compileFromDesignspace(action) ==
    The({
        IF call.error # "none" THEN [error |-> call.error, command |-> <<>>]
        ELSE IF action.kind = "compile-fontc"
            THEN [error |-> "none",
                  command |-> fontcArguments(DGet(call.bound, "designspacePath"),
                                             DGet(call.bound, "outputFontPath"),
                                             DGet(call.bound, "isVariable"),
                                             DGet(call.bound, "extraArguments"))]
        ELSE [error |-> "none",
              command |-> fontmakeArguments(DGet(call.bound, "sourcePath"),
                                            DGet(call.bound, "outputFontPath"),
                                            DGet(call.bound, "extraArguments"))] :
        call \in {BindArguments(compileFromDesignspaceParameters(action.kind),
                                <<sourcePathOf(action), outputFontPathOf(action),
                                  extraArgumentsOf(action.options)>>)}})

GivenDestinations == {[stem |-> "output", suffix |-> ".ttf"], [stem |-> "output", suffix |-> ".otf"]}

GivenOptions ==
    {<<>>, <<<<"flatten-components", "">>>>,
     <<<<"flatten-components", "">>, <<"verbose", "DEBUG">>>>}

GivenBackends == {"inputA", "inputB"}

\* How often an action is connected and processed
MaxConnects == 2
MaxProcessCalls == 2

\* The actions as the dataclasses construct them: input is None
ConstructedActions ==
    {[kind |-> k, destination |-> d, options |-> o, isVariable |-> v,
      input |-> "None", context |-> "none", connects |-> 0, processCalls |-> 0,
      error |-> "none", exported |-> FALSE, built |-> FALSE, command |-> <<>>,
      outputWritten |-> FALSE] :
        k \in ActionKinds, d \in GivenDestinations, o \in GivenOptions, v \in BOOLEAN}
    \ {a \in [kind : {"compile-varc"}, destination : GivenDestinations,
               options : GivenOptions \ {<<>>}, isVariable : BOOLEAN,
               input : {"None"}, context : {"none"}, connects : {0}, processCalls : {0},
               error : {"none"}, exported : {FALSE}, built : {FALSE}, command : {<<>>},
               outputWritten : {FALSE}] : TRUE}

InitActions ==
    /\ reader = [glyphs |-> <<>>, glyphMap |-> <<>>]
    /\ requestedGlyphNames = <<>>
    /\ buildCFF2 = FALSE
    /\ hashOrder = <<".notdef", "A", "B", "C">>
    /\ InitBuilder
    /\ axesGiven = [globalAxes |-> GlobalAxes, glyphAxes |-> <<>>]
    /\ axisTagRuns = <<>>
    /\ outputAction \in ConstructedActions

ActionStep(action) ==
    /\ outputAction' = action
    /\ UNCHANGED <<reader, requestedGlyphNames, buildCFF2, hashOrder, pc, glyphOrder,
                   scanIndex, glyphInfos, cmap, memo, error, compileError, discovered,
                   ttFont, outputWritten, varcTable, axesGiven, axisTagRuns>>

\* connect(input) is entered: "self.input = input", then the body runs
Connect ==
    /\ outputAction.context # "active"
    /\ outputAction.connects < MaxConnects
    /\ \E input \in GivenBackends :
        ActionStep([outputAction EXCEPT !.input = input, !.context = "active",
                                        !.connects = @ + 1, !.error = "none"])

\* The body of the connect() context ends without an exception: the finally
\* clause runs "self.input = None"
ExitNormally ==
    /\ outputAction.context = "active"
    /\ outputAction.error = "none"
    /\ ActionStep([outputAction EXCEPT !.input = "None", !.context = "exited"])

\* connect() without the finally clause: an exception leaves the context and
\* self.input stays
ExitRaised_KeepsInput ==
    /\ outputAction.context = "active"
    /\ ActionStep([outputAction EXCEPT
                      !.context = "exited",
                      !.error = IF @ = "none" THEN "Exception" ELSE @])

\* An exception leaves the body of the connect() context, that of process()
\* or another one: the finally clause runs "self.input = None"
ExitRaised ==
    /\ outputAction.context = "active"
    /\ ActionStep([outputAction EXCEPT
                      !.input = "None", !.context = "exited",
                      !.error = IF @ = "none" THEN "Exception" ELSE @])

\* process() where self.input is None: the assertion fails
ProcessAsserts ==
    /\ outputAction.processCalls < MaxProcessCalls
    /\ outputAction.error = "none"
    /\ outputAction.input = "None"
    /\ ActionStep([outputAction EXCEPT !.processCalls = @ + 1, !.error = "AssertionError"])

\* FontraCompileAction.process with an input: a Builder is set up and run and
\* the font it returns is saved, unless the Builder raises
ProcessVarc ==
    /\ outputAction.processCalls < MaxProcessCalls
    /\ outputAction.error = "none"
    /\ outputAction.input # "None"
    /\ outputAction.kind = "compile-varc"
    /\ \E raised \in {"none", "BuildError"} :
        ActionStep([outputAction EXCEPT !.processCalls = @ + 1, !.built = TRUE,
                                        !.error = raised,
                                        !.outputWritten = @ \/ raised = "none"])

\* CompileFontMakeAction.process with an input: the input is copied to the
\* temporary source, then compileFromDesignspace is called; the compiler
\* that is run writes the output font or fails
ProcessFromDesignspace ==
    /\ outputAction.processCalls < MaxProcessCalls
    /\ outputAction.error = "none"
    /\ outputAction.input # "None"
    /\ outputAction.kind \in {"compile-fontmake", "compile-fontc"}
    /\ \E c \in {compileFromDesignspace(outputAction)} :
        \E raised \in (IF c.error # "none" THEN {c.error} ELSE {"none", "CompilerError"}) :
            ActionStep([outputAction EXCEPT !.processCalls = @ + 1, !.exported = TRUE,
                                            !.command = c.command,
                                            !.error = raised,
                                            !.outputWritten = @ \/ raised = "none"])

NextActions ==
    \/ Connect
    \/ ExitNormally
    \/ ExitRaised
    \/ ProcessAsserts
    \/ ProcessVarc
    \/ ProcessFromDesignspace

SpecActions == InitActions /\ [][NextActions]_vars

(***************************************************************************)
(* Properties                                                              *)
(***************************************************************************)
\* prepareGlyphs has returned: the scan of the glyph order is over
Prepared == pc \in {"buildFont", "save", "done"}

\* The stored GlyphInfo of a name is the placeholder of prepareGlyphs
IsPlaceholder(n) ==
    /\ n \in DOMAIN glyphInfos
    /\ glyphInfos[n] = PlaceholderGlyphInfo(buildCFF2)
    /\ ~glyphInfos[n].hasContours
    /\ glyphInfos[n].variableComponents = <<>>
    /\ ~glyphInfos[n].model.isModel
    /\ glyphInfos[n].xAdvance = 500

\* Claim C1: after setup and prepareGlyphs the glyph order is ".notdef" at
\* index 0, then the requested names in request order (all glyph-map names,
\* sorted, when none were requested), then the component bases discovered
\* during compilation in discovery order, wherever ".notdef" stands in the
\* request.  The code leaves a requested ".notdef" where the request has it.
C1_NotdefFirstThenRequestThenDiscovered ==
    Prepared =>
        glyphOrder =
            <<".notdef">>
            \o SelectSeq(IF requestedGlyphNames # <<>> THEN requestedGlyphNames
                         ELSE SortedNames(DOMAIN reader.glyphMap),
                         LAMBDA n : n # ".notdef")
            \o discovered

\* Claim C2: a glyph whose compilation fails with InterpolationError,
\* MissingBaseGlyphError or VariationModelError is stored as the placeholder
\* (no contours, no components, no model, advance 500); the error does not
\* leave prepareGlyphs, the scan goes on behind the glyph, and once it has
\* ended every glyph of the order has a GlyphInfo.
C2_RecoveredErrorGivesPlaceholder ==
    /\ \A n \in GlyphNames :
        compileError[n] \in {"InterpolationError", "MissingBaseGlyphError",
                             "VariationModelError"} =>
            /\ IsPlaceholder(n)
            /\ error # compileError[n]
            /\ \E i \in 1..(scanIndex - 1) : glyphOrder[i] = n
    /\ Prepared => \A i \in 1..Len(glyphOrder) : glyphOrder[i] \in DOMAIN glyphInfos

\* C2's case: A failed with InterpolationError, B behind it was compiled,
\* and the font was written
C2_Witness ==
    /\ compileError["A"] = "InterpolationError"
    /\ glyphOrder = <<".notdef", "A", "B">>
    /\ compileError["B"] = "none"
    /\ outputWritten

\* The names a glyph's first active source uses as component bases for which
\* reader.getGlyph returns None
AbsentBases(n) ==
    IF n \notin DOMAIN reader.glyphs THEN {}
    ELSE {b \in getComponentBaseNames(reader.glyphs[n]) : b \notin DOMAIN reader.glyphs}

\* Claim C3: when a component of a glyph names a base glyph the backend has
\* no glyph for, compiling the glyph fails with MissingBaseGlyphError, the
\* glyph is stored as the placeholder and the build is not aborted.  The
\* code fails the assertion of getSourceGlyph instead, which is not caught.
C3_MissingBaseIsRecovered ==
    \A n \in GlyphNames :
        (compileError[n] # "" /\ AbsentBases(n) # {}) =>
            /\ compileError[n] = "MissingBaseGlyphError"
            /\ IsPlaceholder(n)
            /\ pc # "failed"

\* Claim C4: when a rounded gvar delta of a glyph is outside [-32768, 32767]
\* (ensureWordRange raises ValueError), that glyph alone fails: it is stored
\* as the placeholder and the build goes on; and no delta outside the range
\* is stored in any gvarVariations.  The ValueError is not caught.
C4_DeltaRangeErrorIsRecovered ==
    /\ \A n \in GlyphNames :
        compileError[n] = "ValueError" => (IsPlaceholder(n) /\ error # "ValueError")
    /\ \A n \in DOMAIN glyphInfos :
        \A i \in 1..Len(glyphInfos[n].gvarVariations) :
            ensureWordRange(glyphInfos[n].gvarVariations[i].coordinates)

\* The font with the sources of glyph n presented in the order p
WithSourceOrder(rd, n, p) ==
    [rd EXCEPT !.glyphs[n].sources = Permute(@, p)]

\* A per-source list put into the order of the model's masters
InModelOrder(model, values) ==
    IF model.isModel THEN [j \in 1..Len(values) |-> values[model.reverseMapping[j]]]
    ELSE values

\* What a GlyphInfo contributes to the font: the default outline and advance,
\* the location of the default source, the deltas and supports, the advance
\* widths of the masters, and per component the flags and the values
CompiledResult(info) ==
    [ttGlyph |-> info.ttGlyph,
     hasContours |-> info.hasContours,
     xAdvance |-> info.xAdvance,
     leftSideBearing |-> info.leftSideBearing,
     defaultLocation |-> IF info.model.isModel THEN info.model.locations[1] ELSE <<>>,
     supports |-> IF info.model.isModel THEN info.model.supports ELSE <<>>,
     gvarVariations |-> info.gvarVariations,
     charStringPaths |->
         IF info.charString.present /\ info.model.isModel /\ info.charString.firstIsDefault
            /\ info.model.reverseMapping[1] = 1
         THEN InModelOrder(info.model, info.charString.paths)
         ELSE info.charString.paths,
     charStringSupports |-> info.charStringSupports,
     xAdvanceVariations |-> InModelOrder(info.model, info.xAdvanceVariations),
     components |->
         [k \in 1..Len(info.variableComponents) |->
             [name |-> info.variableComponents[k].name,
              flags |-> info.variableComponents[k].flags,
              isVariableComponent |-> info.variableComponents[k].isVariableComponent,
              transform |-> [f \in TransformFields |->
                  InModelOrder(info.model, info.variableComponents[k].transform[f])],
              location |-> [a \in DOMAIN info.variableComponents[k].location |->
                  InModelOrder(info.model, info.variableComponents[k].location[a])]]]]

\* Claim C5: permuting the order in which the sources of a glyph are
\* presented leaves its compiled result unchanged: compiling the glyph ends
\* the same way, with the same default source, deltas, supports, advance
\* widths per master, component flags and component values.  The code looks
\* up the bases of the first source's components before it compares the
\* sources, so which error a glyph ends with depends on the order.
C5_SourceOrderIsNotObservable ==
    \A n \in DOMAIN reader.glyphs :
        compileError[n] # "" =>
            \A p \in Perms(Len(reader.glyphs[n].sources)) :
                \A r \in {prepareOneGlyph(WithSourceOrder(reader, n, p), hashOrder, buildCFF2,
                                          EmptyMemo, n)} :
                    /\ r.error = compileError[n]
                    /\ r.error = "none" =>
                           CompiledResult(r.glyphInfo) = CompiledResult(glyphInfos[n])

\* Claim C6, as stated: during one build reader.getGlyph is called at most
\* once for each glyph name, also for a glyph that is both compiled itself
\* and used as a component base, in whichever order the two uses happen.
C6_GetGlyphAtMostOnce ==
    \A n \in GlyphNames : memo.getGlyphCalls[n] <= 1

\* Claim C6, amended: reader.getGlyph is called at most once for a name that
\* is first fetched as a component base (that fetch is cached), and at most
\* twice for any name of a glyph order without repeated names: the fetch of
\* prepareOneGlyph is not stored in the cache, so a glyph that is compiled
\* before its first use as a base is fetched a second time for that use.
C6_GetGlyphOnceWhenFirstFetchedAsBase ==
    \A n \in GlyphNames :
        /\ memo.getGlyphCalls[n] <= 2
        /\ memo.firstFetch[n] = "base" => memo.getGlyphCalls[n] <= 1
        /\ memo.getGlyphCalls[n] = 2 =>
               (memo.firstFetch[n] = "compile" /\ n \in memo.cachedSourceGlyphs)

\* C6's case: B was compiled after it had been fetched and cached as the
\* base of A's component, and was fetched once
C6_Witness ==
    /\ memo.firstFetch["B"] = "base"
    /\ compileError["B"] = "none"
    /\ compileError["A"] = "none"
    /\ memo.getGlyphCalls["B"] = 1

\* Claim C7: during one build setupComponentBaseInfo runs at most once for
\* each base glyph name, however many composites or nesting levels name the
\* base, and later getComponentBaseInfo calls return the cached value.  For
\* a base that is its own base, directly or through others, the value is
\* cached only after the nested lookups returned, so they run it again.
C7_SetupBaseInfoAtMostOnce ==
    \A n \in GlyphNames :
        /\ memo.setupCalls[n] <= 1
        /\ n \in DOMAIN memo.cachedComponentBaseInfo =>
               /\ n \in DOMAIN reader.glyphs
               /\ memo.cachedComponentBaseInfo[n].localAxisNames =
                      BaseInfo(reader.glyphs[n], TRUE).localAxisNames

\* Claim C8: the output font is written only after setup, the compilation of
\* every glyph of the glyph order and buildFont have completed without an
\* error; once a KeyboardInterrupt or an error that is not recovered has
\* occurred the run has failed and no output is ever written.
C8_OutputOnlyAfterCompleteBuild ==
    /\ outputWritten =>
          /\ pc = "done"
          /\ ttFont
          /\ error = "none"
          /\ glyphOrder # <<>>
          /\ scanIndex > Len(glyphOrder)
          /\ \A i \in 1..Len(glyphOrder) : glyphOrder[i] \in DOMAIN glyphInfos
          /\ buildFontError(glyphOrder, glyphInfos) = "none"
    /\ error # "none" => (pc = "failed" /\ ~outputWritten)
    /\ pc = "failed" => error # "none"

\* A KeyboardInterrupt after some glyphs have been compiled: nothing written
C8_Witness ==
    /\ error = "KeyboardInterrupt"
    /\ pc = "failed"
    /\ scanIndex > 1
    /\ ~outputWritten

\* The glyph's stored gvar data evaluated at a normalized location: the
\* default outline and its phantom points plus, for every variation, its
\* scalar at the location times its delta
RECURSIVE SumScaled(_, _, _)
SumScaled(base, deltas, scalars) ==
    IF deltas = <<>> THEN base
    ELSE SumScaled(VAdd(base, VScale(Head(deltas), Head(scalars))), Tail(deltas), Tail(scalars))

InterpolateGvar(info, loc) ==
    SumScaled(FlattenPoints(info.ttGlyph.coordinates
                            \o <<<<0, 0>>, <<info.xAdvance, 0>>, <<0, 0>>, <<0, 0>>>>),
              [i \in 1..Len(info.gvarVariations) |->
                  [k \in 1..Len(info.gvarVariations[i].coordinates) |->
                      R(info.gvarVariations[i].coordinates[k])]],
              [i \in 1..Len(info.gvarVariations) |->
                  supportScalar(loc, info.gvarVariations[i].axes)])

\* The glyph's HVAR data evaluated at a normalized location
InterpolateAdvance(info, loc) ==
    LET hv == prepareHVVAR(info)
    IN  SumScaled(<<RZero>>, hv.deltas,
                  [i \in 1..Len(hv.deltas) |-> supportScalar(loc, hv.supports[i])])[1]

\* Source i of a compiled glyph is reproduced by the stored data at its own
\* location: the outline (in a glyf build) and the advance width
SourceReproduced(n, i) ==
    LET info == glyphInfos[n]
        glyphSources == filterActiveSources(reader.glyphs[n].sources)
        loc == info.model.locations[info.model.mapping[i]]
    IN  /\ ~buildCFF2 =>
              InterpolateGvar(info, loc) = prepareSourceCoordinates(glyphSources)[i]
        /\ InterpolateAdvance(info, loc) = R(glyphSources[i].glyph.xAdvance)

CompiledWithModel(n) ==
    /\ n \in DOMAIN glyphInfos
    /\ compileError[n] = "none"
    /\ glyphInfos[n].model.isModel

\* Every earlier master weighs 0 or 1 at every master's location
IntegerDeltaWeights(model) ==
    \A i \in 1..Len(model.deltaWeights) :
        \A j \in DOMAIN model.deltaWeights[i] : RIsInt(model.deltaWeights[i][j])

\* Claim C9 as stated: for every glyph with two or more compatible active
\* sources at distinct locations, the stored model evaluated at each source's
\* own normalized location reproduces exactly that source's point coordinates
\* and advance width.
C9_RoundTripExact ==
    \A n \in DOMAIN glyphInfos :
        CompiledWithModel(n) =>
            \A i \in 1..Len(glyphInfos[n].xAdvanceVariations) : SourceReproduced(n, i)

\* Claim C9 as amended: for every glyph with two or more compatible active
\* sources at distinct locations and integer coordinates and advances, the
\* stored model evaluated at each source's own normalized location reproduces
\* exactly that source's point coordinates and advance width, provided every
\* earlier master weighs 0 or 1 at every master's location (the deltas are
\* then integers, and rounding them changes nothing).
C9_RoundTripExactForIntegerWeights ==
    \A n \in DOMAIN glyphInfos :
        (CompiledWithModel(n) /\ IntegerDeltaWeights(glyphInfos[n].model)) =>
            \A i \in 1..Len(glyphInfos[n].xAdvanceVariations) : SourceReproduced(n, i)

\* A glyf build has compiled a glyph with two masters of different outlines
C9_Witness ==
    /\ ~buildCFF2
    /\ \E n \in DOMAIN glyphInfos :
        /\ CompiledWithModel(n)
        /\ IntegerDeltaWeights(glyphInfos[n].model)
        /\ Len(glyphInfos[n].gvarVariations) >= 1
        /\ \E k \in 1..Len(glyphInfos[n].gvarVariations[1].coordinates) :
               glyphInfos[n].gvarVariations[1].coordinates[k] # 0
        /\ \A i \in 1..Len(glyphInfos[n].xAdvanceVariations) : SourceReproduced(n, i)

\* The glyph of the example: two sources at weight 0 and weight 1, in either
\* order, with the outlines (0,0),(100,0),(100,200) and (0,0),(120,0),(120,240)
IsWeightExample(g) ==
    /\ Len(g.sources) = 2
    /\ \E i, j \in 1..2 :
        /\ i # j
        /\ g.sources[i].location = AtWeight(0)
        /\ g.sources[i].glyph.path = TriLight
        /\ g.sources[j].location = AtWeight(1)
        /\ g.sources[j].glyph.path = TriBold
    /\ \A i \in 1..2 : ~g.sources[i].inactive

AtWght(v) == [t \in {"wght"} |-> v]

\* Claim C10: for the glyph with two sources at {wght:0} and {wght:1} and the
\* outlines [(0,0),(100,0),(100,200)] and [(0,0),(120,0),(120,240)], the
\* {wght:0} source is the default, the delta of master {wght:1} is
\* [(0,0),(20,0),(20,40)], and the model evaluated at wght 0.5 gives
\* [(0,0),(110,0),(110,220)], whichever source is listed first.
C10_WeightExample ==
    \A n \in DOMAIN glyphInfos :
        (n \in DOMAIN reader.glyphs /\ IsWeightExample(reader.glyphs[n])
            /\ compileError[n] = "none") =>
            LET info == glyphInfos[n]
                g == reader.glyphs[n]
            IN  /\ info.model.isModel
                /\ \E i \in 1..2 :
                    /\ g.sources[i].location = AtWeight(0)
                    /\ info.model.reverseMapping[1] = i
                    /\ info.xAdvance = g.sources[i].glyph.xAdvance
                    /\ info.xAdvance # g.sources[3 - i].glyph.xAdvance
                /\ ~buildCFF2 =>
                    /\ info.ttGlyph.coordinates = TriLight.coordinates
                    /\ Len(info.gvarVariations) = 1
                    /\ info.gvarVariations[1].axes = AtWght(<<RZero, ROne, ROne>>)
                    /\ SubSeq(info.gvarVariations[1].coordinates, 1, 6)
                           = <<0, 0, 20, 0, 20, 40>>
                    /\ SubSeq(InterpolateGvar(info, AtWght(<<1, 2>>)), 1, 6)
                           = <<R(0), R(0), R(110), R(0), R(110), R(220)>>
                /\ buildCFF2 =>
                    /\ info.charString.firstIsDefault
                    /\ info.charString.paths[1] = TriLight.coordinates

\* A glyf build has compiled the example with the {wght:1} source listed first
C10_Witness ==
    /\ ~buildCFF2
    /\ \E n \in DOMAIN glyphInfos :
        /\ n \in DOMAIN reader.glyphs
        /\ IsWeightExample(reader.glyphs[n])
        /\ reader.glyphs[n].sources[1].location = AtWeight(1)
        /\ compileError[n] = "none"
        /\ glyphInfos[n].gvarVariations # <<>>

\* The active sources of a glyph of the font, and their components
ActiveSources(n) == filterActiveSources(reader.glyphs[n].sources)

\* Glyph n was compiled without an error and has the components of its sources
CompiledComponents(n) ==
    /\ n \in DOMAIN glyphInfos
    /\ n \in DOMAIN reader.glyphs
    /\ compileError[n] = "none"

\* Component k of glyph n has the same transformation and the same location
\* in every active source
ConstantComponent(n, k) ==
    \A i \in 1..Len(ActiveSources(n)) :
        /\ ActiveSources(n)[i].glyph.components[k].transformation
               = ActiveSources(n)[1].glyph.components[k].transformation
        /\ ActiveSources(n)[i].glyph.components[k].location
               = ActiveSources(n)[1].glyph.components[k].location

\* The axes a component of base b can address: the global axes and the
\* local axes of b
BaseAxisNames(b) ==
    {GlobalAxes[i].name : i \in 1..Len(GlobalAxes)}
    \cup {reader.glyphs[b].axes[i].name : i \in 1..Len(reader.glyphs[b].axes)}

\* A constant component carries neither variation flag and stores no
\* masters for its transform or its axis values
NoVariationStored(c) ==
    /\ "TRANSFORM_HAS_VARIATION" \notin c.flags
    /\ "AXIS_VALUES_HAVE_VARIATION" \notin c.flags
    /\ ~addTransformationToComponent(c).hasTransformVarIndex
    /\ addLocationToComponentError(c, FontAxisTags(glyphInfos)) = "none" =>
           ~addLocationToComponent(c, FontAxisTags(glyphInfos)).hasAxisValuesVarIndex

\* Claim C11 as stated: a component whose nine transform values and axis
\* values are the same in every active source gets neither
\* TRANSFORM_HAS_VARIATION nor AXIS_VALUES_HAVE_VARIATION, gets no
\* variation-store index for its transform or its axis values, and is a
\* classic component (isVariableComponent is false).
C11_ConstantComponentIsClassic ==
    \A n \in DOMAIN glyphInfos :
        CompiledComponents(n) =>
            \A k \in 1..Len(glyphInfos[n].variableComponents) :
                ConstantComponent(n, k) =>
                    /\ NoVariationStored(glyphInfos[n].variableComponents[k])
                    /\ ~glyphInfos[n].variableComponents[k].isVariableComponent

\* Claim C11 as amended: such a component gets neither variation flag and no
\* variation-store index, and its isVariableComponent is false exactly when
\* its location names no axis of its base glyph (no global axis and no local
\* axis of the base); a constant location on such an axis makes it a
\* variable component.
C11_ConstantComponentIsClassicWithoutAxes ==
    \A n \in DOMAIN glyphInfos :
        CompiledComponents(n) =>
            \A k \in 1..Len(glyphInfos[n].variableComponents) :
                ConstantComponent(n, k) =>
                    /\ NoVariationStored(glyphInfos[n].variableComponents[k])
                    /\ glyphInfos[n].variableComponents[k].isVariableComponent
                       <=> (DOMAIN ActiveSources(n)[1].glyph.components[k].location
                            \cap BaseAxisNames(glyphInfos[n].variableComponents[k].name) # {})

\* The font was built from a glyph with two sources holding the same scaled
\* component, which is classic
C11_Witness ==
    /\ ttFont
    /\ \E n \in DOMAIN glyphInfos :
        /\ CompiledComponents(n)
        /\ Len(ActiveSources(n)) >= 2
        /\ glyphInfos[n].model.isModel
        /\ \E k \in 1..Len(glyphInfos[n].variableComponents) :
            /\ ConstantComponent(n, k)
            /\ ActiveSources(n)[1].glyph.components[k].transformation # Identity
            /\ ~glyphInfos[n].variableComponents[k].isVariableComponent
            /\ "HAVE_SCALE_X" \in glyphInfos[n].variableComponents[k].flags

\* The local axes of the glyph given that are not named as a global axis
GivenLocalNames ==
    SelectSeq([i \in 1..Len(axesGiven.glyphAxes) |-> axesGiven.glyphAxes[i].name],
              LAMBDA name : \A i \in 1..Len(axesGiven.globalAxes) :
                                axesGiven.globalAxes[i].name # name)

\* Claim C12: makeLocalAxisTags gives the local axes of a glyph the tags
\* V000, V001, ... in declaration order, skipping the names of global axes;
\* two runs on the same input give the same tags; and in the merged
\* global+local axis set every tag is unique, so that no local tag is the
\* tag of a global axis.
C12_LocalAxisTagsAreUnique ==
    \A r \in 1..Len(axisTagRuns) :
        /\ axisTagRuns[r].localAxisTags =
               [i \in 1..Len(GivenLocalNames) |->
                   <<GivenLocalNames[i], <<"V000", "V001", "V002">>[i]>>]
        /\ axisTagRuns[r] = axisTagRuns[1]
        /\ \A i, j \in 1..Len(axisTagRuns[r].axisTags) :
               axisTagRuns[r].axisTags[i][2] = axisTagRuns[r].axisTags[j][2] => i = j

\* The claim without its last part: the tags V000, V001, ... in declaration
\* order, skipping global names, the same in every run, and different for
\* different local axes
C12_LocalAxisTagsInOrder ==
    \A r \in 1..Len(axisTagRuns) :
        /\ axisTagRuns[r].localAxisTags =
               [i \in 1..Len(GivenLocalNames) |->
                   <<GivenLocalNames[i], <<"V000", "V001", "V002">>[i]>>]
        /\ axisTagRuns[r] = axisTagRuns[1]

(***************************************************************************)
(* C13: the recursive computation of respondsToGlobalAxes                  *)
(* (getComponentBaseInfo calling setupComponentBaseInfo, which calls       *)
(* getComponentBaseInfo for each nested base) terminates for every finite  *)
(* component graph, cycles included: no lookup nests deeper than the       *)
(* number of glyphs of the font, so none ends in a RecursionError.         *)
(***************************************************************************)
C13_BaseInfoRecursionTerminates ==
    /\ Cardinality(GlyphNames) <= RecursionLimit
    /\ \A n \in GlyphNames : compileError[n] # "RecursionError"

\* The names of the bases of the components of a stored GlyphInfo
ComponentBaseNames(info) ==
    {info.variableComponents[k].name : k \in 1..Len(info.variableComponents)}

\* One iteration of the loop of prepareGlyphs
ScanStep == pc = "prepare" /\ scanIndex' = scanIndex + 1

\* What a step may do to the glyph order: only a loop iteration changes it,
\* and only by appending, once each, the bases of the glyph just compiled
\* that are neither in the order nor compiled
AppendOnly ==
    /\ (pc # "setup" /\ ~ScanStep) => glyphOrder' = glyphOrder
    /\ ScanStep =>
        /\ Len(glyphOrder') >= Len(glyphOrder)
        /\ SubSeq(glyphOrder', 1, Len(glyphOrder)) = glyphOrder
        /\ \A i \in (Len(glyphOrder) + 1)..Len(glyphOrder') :
            /\ glyphOrder'[i] \notin Range(glyphOrder) \cup DOMAIN glyphInfos
            /\ glyphOrder'[i] \in ComponentBaseNames(glyphInfos'[CurrentGlyph])
            /\ \A j \in (Len(glyphOrder) + 1)..Len(glyphOrder') :
                glyphOrder'[j] = glyphOrder'[i] => j = i
        /\ \A b \in ComponentBaseNames(glyphInfos'[CurrentGlyph]) :
            /\ b \in Range(glyphOrder')
            /\ b \notin Range(glyphOrder) \cup DOMAIN glyphInfos =>
                Cardinality({i \in 1..Len(glyphOrder') : glyphOrder'[i] = b}) = 1

\* The scan has processed exactly the names in front of its position, and
\* when it has ended these are all names of the order, the appended ones too
ScanCoversOrder ==
    /\ pc # "setup" =>
        DOMAIN glyphInfos = {glyphOrder[i] : i \in 1..(scanIndex - 1)}
    /\ Prepared =>
        /\ scanIndex = Len(glyphOrder) + 1
        /\ Range(discovered) \subseteq DOMAIN glyphInfos
        /\ \A i \in 1..Len(glyphOrder) : glyphOrder[i] \in DOMAIN glyphInfos

\* Claim C14: prepareGlyphs is one scan over an append-only glyph order.  A
\* component base that is neither scheduled nor compiled is appended exactly
\* once; the append never removes, reorders or duplicates an entry; every
\* name appended during the scan is processed by the same scan; and when the
\* scan ends every name of the order has its GlyphInfo.
C14_OneScanOverAppendOnlyOrder == []ScanCoversOrder /\ [][AppendOnly]_vars

\* C14's case: the scan compiled A, appended its bases B and C behind the
\* requested names, processed both and ended
C14_Witness ==
    /\ Prepared
    /\ requestedGlyphNames = <<"A">>
    /\ discovered = <<"B", "C">>
    /\ glyphOrder = <<"A", ".notdef", "B", "C">> \/ glyphOrder = <<".notdef", "A", "B", "C">>
    /\ compileError["A"] = "none"
    /\ {"B", "C"} \subseteq DOMAIN glyphInfos

\* The glyphs of a font one of whose own sources has a location on an axis
\* that is not one of the glyph's local axes
VaryingOnGlobalAxes(rd) ==
    {g \in DOMAIN rd.glyphs :
        \E i \in 1..Len(rd.glyphs[g].sources) :
            \E a \in DOMAIN rd.glyphs[g].sources[i].location :
                \A j \in 1..Len(rd.glyphs[g].axes) : rd.glyphs[g].axes[j].name # a}

\* The glyphs that respond to global axes: those of S, and every glyph that
\* has a component whose base responds
RECURSIVE RespondingGlyphs(_, _)
RespondingGlyphs(rd, S) ==
    LET viaComponent ==
            {g \in DOMAIN rd.glyphs :
                \E i \in 1..Len(rd.glyphs[g].sources) :
                    /\ ~rd.glyphs[g].sources[i].inactive
                    /\ \E k \in 1..Len(rd.glyphs[g].sources[i].glyph.components) :
                        rd.glyphs[g].sources[i].glyph.components[k].name \in S}
    IN  IF viaComponent \subseteq S THEN S ELSE RespondingGlyphs(rd, S \cup viaComponent)

\* Claim C15: a component gets RESET_UNSPECIFIED_AXES exactly when its base
\* glyph does not respond to global axes, where a glyph responds exactly when
\* one of its own sources has a location on an axis that is not one of its
\* local axes, or the base of one of its components (recursively) responds.
C15_ResetIffBaseIgnoresGlobalAxes ==
    \A n \in DOMAIN glyphInfos :
        \A k \in 1..Len(glyphInfos[n].variableComponents) :
            "RESET_UNSPECIFIED_AXES" \in glyphInfos[n].variableComponents[k].flags
            <=> glyphInfos[n].variableComponents[k].name
                    \notin RespondingGlyphs(reader, VaryingOnGlobalAxes(reader))

\* C15's case: A's base B has no location of its own and responds through
\* its component C, which varies along the weight axis; B's component is not
\* reset either
C15_Witness ==
    /\ reader.glyphs["A"] = G_Compo("B")
    /\ "B" \in DOMAIN reader.glyphs /\ reader.glyphs["B"] = G_Compo("C")
    /\ "C" \in DOMAIN reader.glyphs /\ reader.glyphs["C"] = G_Wght
    /\ compileError["A"] = "none"
    /\ compileError["B"] = "none"
    /\ glyphInfos["A"].variableComponents[1].name = "B"
    /\ "RESET_UNSPECIFIED_AXES" \notin glyphInfos["A"].variableComponents[1].flags
    /\ "RESET_UNSPECIFIED_AXES" \notin glyphInfos["B"].variableComponents[1].flags

\* The presence flag of each transform field
PresenceFlag ==
    [f \in TransformFields |->
        VAR_TRANSFORM_MAPPING[CHOOSE j \in 1..Len(VAR_TRANSFORM_MAPPING) :
                                  VAR_TRANSFORM_MAPPING[j].name = f].flag]

\* The value of a transform field of component k of glyph n in its i-th
\* active source
FieldValue(n, i, k, f) == ActiveSources(n)[i].glyph.components[k].transformation[f]

\* Claim C16: for each of the nine transform fields independently, the
\* field's presence flag is set on a component exactly when the value of the
\* field in some active source differs from the field's identity default;
\* TRANSFORM_HAS_VARIATION is set exactly when the values of some field
\* differ between two active sources.
C16_TransformFlags ==
    \A n \in DOMAIN glyphInfos :
        \A k \in 1..Len(glyphInfos[n].variableComponents) :
            /\ Cardinality(TransformFields) = 9
            /\ \A f \in TransformFields :
                PresenceFlag[f] \in glyphInfos[n].variableComponents[k].flags
                <=> \E i \in 1..Len(ActiveSources(n)) : FieldValue(n, i, k, f) # Identity[f]
            /\ "TRANSFORM_HAS_VARIATION" \in glyphInfos[n].variableComponents[k].flags
               <=> \E f \in TransformFields :
                       \E i, j \in 1..Len(ActiveSources(n)) :
                           FieldValue(n, i, k, f) # FieldValue(n, j, k, f)

\* C16's case: A's component is moved in its second source only; it has the
\* presence flag of translateX and of no other field, and its transform varies
C16_Witness ==
    /\ reader.glyphs["A"] = G_CompoMoved("B")
    /\ compileError["A"] = "none"
    /\ glyphInfos["A"].variableComponents[1].flags
           \cap {PresenceFlag[f] : f \in TransformFields} = {"HAVE_TRANSLATE_X"}
    /\ "TRANSFORM_HAS_VARIATION" \in glyphInfos["A"].variableComponents[1].flags

\* The local axes of the base glyph of a component
BaseLocalAxisNames(c) ==
    {reader.glyphs[c.name].axes[i].name : i \in 1..Len(reader.glyphs[c.name].axes)}

\* Claim C17: after component analysis, if RESET_UNSPECIFIED_AXES is set the
\* component's axis map holds no axis whose value is 0 in every source; if
\* it is not set, the axis map holds every local axis of the base glyph, the
\* missing ones filled with 0 for every source, and the encoder emits that
\* complete axis set: the component carries HAVE_AXES and its axis values
\* are written whenever the filled map is non-empty.
C17_PrunedOrCompleteAxisSet ==
    \A n \in DOMAIN glyphInfos :
        CompiledComponents(n) =>
            \A k \in 1..Len(glyphInfos[n].variableComponents) :
                \A c \in {glyphInfos[n].variableComponents[k]} :
                    IF "RESET_UNSPECIFIED_AXES" \in c.flags
                    THEN \A a \in DOMAIN c.location :
                             \E i \in 1..Len(c.location[a]) : c.location[a][i] # RZero
                    ELSE /\ BaseLocalAxisNames(c) \subseteq DOMAIN c.location
                         /\ \A a \in BaseLocalAxisNames(c) :
                             (\A i \in 1..Len(ActiveSources(n)) :
                                 a \notin DOMAIN ActiveSources(n)[i].glyph.components[k].location)
                             => c.location[a] = [i \in 1..Len(ActiveSources(n)) |-> RZero]
                         /\ DOMAIN c.location # {} =>
                             /\ "HAVE_AXES" \in c.flags
                             /\ addLocationToComponentError(c, FontAxisTags(glyphInfos)) = "none"
                                 => addLocationToComponent(c, FontAxisTags(glyphInfos)).written

\* Some active source of glyph n has another number of components than the
\* first active source, or another base glyph name at some index
ComponentsMismatch(n) ==
    \E i \in 2..Len(ActiveSources(n)) :
        \/ Len(ActiveSources(n)[i].glyph.components)
               # Len(ActiveSources(n)[1].glyph.components)
        \/ \E k \in 1..Len(ActiveSources(n)[1].glyph.components) :
               /\ k <= Len(ActiveSources(n)[i].glyph.components)
               /\ ActiveSources(n)[i].glyph.components[k].name
                      # ActiveSources(n)[1].glyph.components[k].name

\* Claim C18: if an active source of a glyph has a different number of
\* components than the first active source, or a component with a different
\* base glyph name at some index, compiling the glyph raises
\* InterpolationError and the glyph becomes a placeholder, whichever source
\* it is that differs.
C18_ComponentMismatchIsInterpolationError ==
    \A n \in DOMAIN reader.glyphs :
        (compileError[n] # "" /\ ComponentsMismatch(n)) =>
            /\ compileError[n] = "InterpolationError"
            /\ IsPlaceholder(n)

\* The normalized locations of the active sources of glyph n
SourceLocations(n) ==
    prepareLocations(ActiveSources(n),
                     FMerge(DefaultsOf(globalAxisDict),
                            DefaultsOf(LocalAxisDict(reader.glyphs[n]))),
                     DMerge(globalAxisDict, LocalAxisDict(reader.glyphs[n])))

\* The i-th active source of glyph n is at the neutral (all-default) location
AtNeutral(n, i) ==
    \A a \in DOMAIN SourceLocations(n)[i] : SourceLocations(n)[i][a] = RZero

\* Glyph n has at least two active sources, at pairwise distinct locations,
\* one of them the neutral location
DistinctWithNeutral(n) ==
    /\ Len(ActiveSources(n)) >= 2
    /\ \A i, j \in 1..Len(ActiveSources(n)) :
        SourceLocations(n)[i] = SourceLocations(n)[j] => i = j
    /\ \E i \in 1..Len(ActiveSources(n)) : AtNeutral(n, i)

\* The glyphs for which the construction of the model decides how the
\* compilation ends
ModelDecided(n) ==
    /\ n \in DOMAIN reader.glyphs
    /\ n \in DOMAIN glyphInfos
    /\ compileError[n] \in {"none", "VariationModelError"}

\* The outline, the advance and the component values of the GlyphInfo of n
\* are those of its d-th active source
DefaultsFromSource(n, d) ==
    /\ IF buildCFF2
       THEN glyphInfos[n].charString.paths[1] = ActiveSources(n)[d].glyph.path.coordinates
       ELSE /\ glyphInfos[n].ttGlyph.coordinates = ActiveSources(n)[d].glyph.path.coordinates
            /\ glyphInfos[n].ttGlyph.contourInfo = ActiveSources(n)[d].glyph.path.contourInfo
    /\ glyphInfos[n].xAdvance = ActiveSources(n)[d].glyph.xAdvance
    /\ \A k \in 1..Len(glyphInfos[n].variableComponents) :
        \A c \in {glyphInfos[n].variableComponents[k]} :
            /\ addTransformationToComponent(c).transform
                   = ActiveSources(n)[d].glyph.components[k].transformation
            /\ addLocationToComponentError(c, FontAxisTags(glyphInfos)) = "none" =>
                   addLocationToComponent(c, FontAxisTags(glyphInfos)).axisValues
                       = addLocationToComponent([c EXCEPT !.defaultSourceIndex = d],
                                                FontAxisTags(glyphInfos)).axisValues

\* The default source when a model was built (the source at the neutral
\* location) and when none was (the first)
NeutralSource(n) ==
    IF glyphInfos[n].model.isModel
    THEN CHOOSE i \in 1..Len(ActiveSources(n)) : AtNeutral(n, i)
    ELSE 1

\* Claim C19 as stated: a variation model is built for a glyph exactly when
\* at least two distinct active-source locations are supplied; the default
\* source is the source at the model's neutral location, or the first source
\* when no model is built; the default outline, the default advance and the
\* default component values are all taken from that one source.
C19_ModelIffTwoDistinctLocations ==
    \A n \in GlyphNames :
        ModelDecided(n) =>
            /\ glyphInfos[n].model.isModel
               <=> Cardinality(Range(SourceLocations(n))) >= 2
            /\ compileError[n] = "none" => DefaultsFromSource(n, NeutralSource(n))

\* Claim C19 as amended: the model is built exactly when at least two active
\* sources are supplied whose locations are pairwise distinct and include
\* the neutral location; the default source, outline, advance and component
\* values as stated.
C19_ModelIffDistinctLocationsWithNeutral ==
    \A n \in GlyphNames :
        ModelDecided(n) =>
            /\ glyphInfos[n].model.isModel <=> DistinctWithNeutral(n)
            /\ compileError[n] = "VariationModelError"
               <=> (Len(ActiveSources(n)) >= 2 /\ ~DistinctWithNeutral(n))
            /\ compileError[n] = "none" => DefaultsFromSource(n, NeutralSource(n))

\* C19's case: A's neutral source is listed second; the model was built and
\* the component's translateX is the 0 of that source, not the 30 of the first
C19_Witness ==
    /\ reader.glyphs["A"] = G_CompoMovedRev("B")
    /\ compileError["A"] = "none"
    /\ glyphInfos["A"].model.isModel
    /\ NeutralSource("A") = 2
    /\ addTransformationToComponent(glyphInfos["A"].variableComponents[1]).transform["translateX"] = 0
    /\ glyphInfos["A"].xAdvance = 500

\* Two active sources of glyph n normalize to the same location
DuplicateLocations(n) ==
    \E i, j \in 1..Len(ActiveSources(n)) :
        i # j /\ SourceLocations(n)[i] = SourceLocations(n)[j]

\* Claim C20: if two active sources of a glyph normalize to the same
\* location, constructing the glyph's variation model fails with
\* VariationModelError; the glyph is replaced by a placeholder and the build
\* continues with the other glyphs.  (Sources whose outlines are not
\* compatible are rejected with InterpolationError before the model is
\* constructed; that glyph is a placeholder as well.)
C20_DuplicateLocationIsRecovered ==
    \A n \in DOMAIN reader.glyphs :
        (compileError[n] # "" /\ DuplicateLocations(n)) =>
            /\ compileError[n] =
                   IF checkInterpolationCompatibility(ActiveSources(n))
                   THEN "VariationModelError" ELSE "InterpolationError"
            /\ IsPlaceholder(n)
            /\ error \notin {"VariationModelError", "InterpolationError"}
            /\ \E i \in 1..(scanIndex - 1) : glyphOrder[i] = n
            /\ Prepared => \A i \in 1..Len(glyphOrder) : glyphOrder[i] \in DOMAIN glyphInfos

\* C20's case: A has two sources at the default location and failed with
\* VariationModelError; B behind it was compiled and the font was written
C20_Witness ==
    /\ reader.glyphs["A"] = G_DupLoc
    /\ DuplicateLocations("A")
    /\ compileError["A"] = "VariationModelError"
    /\ IsPlaceholder("A")
    /\ glyphOrder = <<".notdef", "A", "B">>
    /\ compileError["B"] = "none"
    /\ outputWritten

\* Claim C21: in CFF2 mode, for a glyph with a variation model, the sources
\* are drawn into the merged charstring in an order whose first source is
\* the default (neutral) master: in input order when the neutral master is
\* input index 0, else in model order; the model the pen is given maps the
\* neutral master to index 0, so the assertion of buildCharString holds.
C21_FirstDrawnSourceIsDefault ==
    \A n \in GlyphNames :
        (buildCFF2 /\ CompiledComponents(n) /\ glyphInfos[n].model.isModel) =>
            /\ glyphInfos[n].charString.firstIsDefault
            /\ Len(glyphInfos[n].charString.paths) = Len(ActiveSources(n))
            /\ glyphInfos[n].charString.paths[1]
                   = ActiveSources(n)[NeutralSource(n)].glyph.path.coordinates
            /\ \A i \in 1..Len(ActiveSources(n)) :
                glyphInfos[n].charString.paths[i] =
                    ActiveSources(n)[IF NeutralSource(n) = 1 THEN i
                                     ELSE glyphInfos[n].model.reverseMapping[i]
                                    ].glyph.path.coordinates

\* C21's case: in CFF2 mode A's neutral master is listed second; the bold
\* outline of the first source is drawn second
C21_Witness ==
    /\ buildCFF2
    /\ reader.glyphs["A"] = G_WghtRev
    /\ compileError["A"] = "none"
    /\ NeutralSource("A") = 2
    /\ glyphInfos["A"].charString.firstIsDefault
    /\ glyphInfos["A"].charString.paths = <<TriLight.coordinates, TriBold.coordinates>>

\* Claim C22: once a GlyphInfo has been stored for a glyph it is never
\* replaced or modified: buildFont, buildVARC, the HVAR assembler and the
\* CFF2 variation-data preparation leave every GlyphInfo and the objects it
\* holds (its charstring program, its component infos, its advance list)
\* unchanged.
C22_GlyphInfosAreNeverModified ==
    [][\A n \in DOMAIN glyphInfos :
           n \in DOMAIN glyphInfos' /\ glyphInfos'[n] = glyphInfos[n]]_vars

\* The part of C22 that the model bears out: no step changes anything of a
\* stored GlyphInfo but the program of its charstring
C22_OnlyTheProgramIsModified ==
    [][\A n \in DOMAIN glyphInfos :
           /\ n \in DOMAIN glyphInfos'
           /\ [glyphInfos'[n] EXCEPT !.charString.program = <<>>]
                  = [glyphInfos[n] EXCEPT !.charString.program = <<>>]]_vars

\* Claim C23: in buildVARC each distinct tuple of axis indices gets exactly
\* one entry of the axis-indices list: two components with the same tuple
\* get the same axisIndicesIndex, components with different tuples get
\* different indices, the indices are 0..n-1 in order of first use, and
\* entry i of the emitted list is the tuple whose index is i.
C23_AxisIndicesAreShared ==
    ttFont =>
        /\ \A i, j \in 1..Len(varcTable.varComponents) :
            varcTable.varComponents[i].axisIndices = varcTable.varComponents[j].axisIndices
            <=> varcTable.varComponents[i].axisIndicesIndex
                    = varcTable.varComponents[j].axisIndicesIndex
        /\ \A i \in 1..Len(varcTable.varComponents) :
            /\ varcTable.varComponents[i].axisIndicesIndex + 1
                   \in 1..Len(varcTable.axisIndicesList)
            /\ varcTable.axisIndicesList[varcTable.varComponents[i].axisIndicesIndex + 1]
                   = varcTable.varComponents[i].axisIndices
            /\ (\A j \in 1..(i - 1) : varcTable.varComponents[j].axisIndices
                                          # varcTable.varComponents[i].axisIndices)
               => varcTable.varComponents[i].axisIndicesIndex
                      = Cardinality({varcTable.varComponents[j].axisIndices : j \in 1..(i - 1)})
        /\ Len(varcTable.axisIndicesList)
               = Cardinality({varcTable.varComponents[i].axisIndices :
                                 i \in 1..Len(varcTable.varComponents)})

\* C23's case: the four components of A set flex, weight, flex again and
\* both axes of B; the first and the third share entry 0 of the list
C23_Witness ==
    /\ ttFont
    /\ reader.glyphs["A"] = G_CompoAxes("B")
    /\ Len(varcTable.varComponents) = 4
    /\ [i \in 1..4 |-> varcTable.varComponents[i].axisIndicesIndex] = <<0, 1, 0, 2>>
    /\ varcTable.axisIndicesList = <<<<2>>, <<0>>, <<2, 0>>>>

\* C24: compile-fontc, processed while connected, runs fontc with the
\* destination as --output-file on the exported source and, unless fontc
\* itself fails, the output font is produced
C24_FontcIsRunOnTheExportedSource ==
    (/\ outputAction.kind = "compile-fontc"
     /\ outputAction.exported)
        => /\ outputAction.command # <<>>
           /\ SubSeq(outputAction.command, 1, 4)
                = <<<<"fontc">>, <<"--output-file">>, outputFontPathOf(outputAction),
                    sourcePathOf(outputAction)>>
           /\ outputAction.error \in {"none", "CompilerError", "Exception"}

\* C24 (supporting): a compile-fontc action never runs a command and never
\* produces an output font: its call of compileFromDesignspace is a TypeError
C24_FontcCallRaisesTypeError ==
    outputAction.kind = "compile-fontc"
        => /\ outputAction.command = <<>>
           /\ ~outputAction.outputWritten
           /\ compileFromDesignspace(outputAction).error = "TypeError"

\* C25: at VARC assembly every component with HAVE_AXES in its flags has a
\* non-empty axis-location map, so that "assert self.location" in
\* addLocationToComponent never fails; in particular buildFont does not end
\* in an AssertionError
C25_HaveAxesMeansLocation ==
    pc = "buildFont" =>
    /\ \A n \in DOMAIN glyphInfos :
        \A k \in 1..Len(glyphInfos[n].variableComponents) :
            \A c \in {glyphInfos[n].variableComponents[k]} :
                "HAVE_AXES" \in c.flags =>
                    /\ DOMAIN c.location # {}
                    /\ addLocationToComponentError(c, FontAxisTags(glyphInfos))
                           # "AssertionError"
    /\ buildFontError(glyphOrder, glyphInfos) # "AssertionError"

\* C25 (supporting): a component with HAVE_AXES and an empty location map
\* resets the unspecified axes, and every axis its sources name is at the
\* default in every active source
C25_EmptyLocationOnlyAfterPruning ==
    \A n \in DOMAIN glyphInfos :
        CompiledComponents(n) =>
            \A k \in 1..Len(glyphInfos[n].variableComponents) :
                \A c \in {glyphInfos[n].variableComponents[k]} :
                    ("HAVE_AXES" \in c.flags /\ DOMAIN c.location = {}) =>
                        /\ "RESET_UNSPECIFIED_AXES" \in c.flags
                        /\ \E i \in 1..Len(ActiveSources(n)) :
                               DOMAIN ActiveSources(n)[i].glyph.components[k].location # {}

\* C26: at VARC assembly every axis tag used by the location of a component
\* is in the font-wide axis tag list (the global tags, then the local tags
\* collected from the stored GlyphInfos), so that axisTags.index never
\* fails; in particular buildFont does not end in a ValueError
C26_ComponentAxisTagsAreFontAxisTags ==
    pc = "buildFont" =>
    /\ \A n \in DOMAIN glyphInfos :
        \A k \in 1..Len(glyphInfos[n].variableComponents) :
            \A c \in {glyphInfos[n].variableComponents[k]} :
                "HAVE_AXES" \in c.flags =>
                    \A t \in DOMAIN mapDictKeys(c.location, c.baseAxisTags) :
                        SeqContains(FontAxisTags(glyphInfos), t)
    /\ buildFontError(glyphOrder, glyphInfos) # "ValueError"

\* C26 (supporting): a component uses an axis tag outside the font-wide
\* list only when its base glyph was not compiled (it is not in the glyph
\* map, or its compilation failed) and so is stored as the placeholder
C26_MissingTagsAreOfPlaceholderBases ==
    pc = "buildFont" =>
        \A n \in DOMAIN glyphInfos :
            \A k \in 1..Len(glyphInfos[n].variableComponents) :
                \A c \in {glyphInfos[n].variableComponents[k]} :
                    (\E t \in DOMAIN mapDictKeys(c.location, c.baseAxisTags) :
                        ~SeqContains(FontAxisTags(glyphInfos), t))
                    => /\ compileError[c.name] # "none"
                       /\ IsPlaceholder(c.name)

\* C27: a stored GlyphInfo without a model (a glyph with a single active
\* source, or the placeholder) has no component with
\* TRANSFORM_HAS_VARIATION or AXIS_VALUES_HAVE_VARIATION in its flags and
\* exactly one advance width, so that the assertions of buildVARC and of
\* _prepareHVVAR never fail
C27_NoModelMeansNoVariation ==
    \A n \in DOMAIN glyphInfos :
        ~glyphInfos[n].model.isModel =>
            /\ \A k \in 1..Len(glyphInfos[n].variableComponents) :
                   glyphInfos[n].variableComponents[k].flags
                       \cap {"TRANSFORM_HAS_VARIATION", "AXIS_VALUES_HAVE_VARIATION"} = {}
            /\ Len(glyphInfos[n].xAdvanceVariations) = 1
            /\ \/ IsPlaceholder(n)
               \/ /\ CompiledComponents(n)
                  /\ Len(ActiveSources(n)) = 1

\* C27 witness: at the assembly, a compiled glyph without a model that has
\* an inactive source besides its active one, and a compiled single-source
\* glyph with a component that has flags
C27_Witness ==
    /\ pc = "buildFont"
    /\ \E n \in DOMAIN glyphInfos :
        /\ CompiledComponents(n)
        /\ ~glyphInfos[n].model.isModel
        /\ Len(reader.glyphs[n].sources) = 2
    /\ \E n \in DOMAIN glyphInfos :
        /\ CompiledComponents(n)
        /\ ~glyphInfos[n].model.isModel
        /\ \E k \in 1..Len(glyphInfos[n].variableComponents) :
            glyphInfos[n].variableComponents[k].flags # {}

\* The font without the inactive sources of its glyphs
WithoutInactiveSources(rd) ==
    [rd EXCEPT !.glyphs = [n \in DOMAIN rd.glyphs |->
                              [rd.glyphs[n] EXCEPT !.sources = filterActiveSources(@)]]]

\* C28: inactive sources have no effect: the GlyphInfo stored for a compiled
\* glyph (its component flags and respondsToGlobalAxes included) is the one
\* the font without any inactive source, of this glyph or of a component
\* base, compiles to
C28_InactiveSourcesHaveNoEffect ==
    pc \in {"prepare", "buildFont"} =>
        \A n \in DOMAIN glyphInfos :
            compileError[n] = "none" =>
                \E c \in {prepareOneGlyph(WithoutInactiveSources(reader), hashOrder,
                                          buildCFF2, EmptyMemo, n)} :
                    /\ c.error = "none"
                    /\ c.glyphInfo = glyphInfos[n]

\* C28 (supporting): apart from respondsToGlobalAxes and the
\* RESET_UNSPECIFIED_AXES flag and the location pruning that follow from it,
\* the stored GlyphInfo is that of the font without inactive sources
C28_InactiveSourcesOnlyReachTheBaseInfo ==
    pc \in {"prepare", "buildFont"} =>
        \A n \in DOMAIN glyphInfos :
            compileError[n] = "none" =>
                \E c \in {prepareOneGlyph(WithoutInactiveSources(reader), hashOrder,
                                          buildCFF2, EmptyMemo, n)} :
                    /\ c.error = "none"
                    /\ [c.glyphInfo EXCEPT !.variableComponents = <<>>]
                           = [glyphInfos[n] EXCEPT !.variableComponents = <<>>]
                    /\ Len(c.glyphInfo.variableComponents)
                           = Len(glyphInfos[n].variableComponents)
                    /\ \A k \in 1..Len(glyphInfos[n].variableComponents) :
                        \E a \in {c.glyphInfo.variableComponents[k]},
                           b \in {glyphInfos[n].variableComponents[k]} :
                            /\ [a EXCEPT !.respondsToGlobalAxes = TRUE, !.flags = {},
                                         !.location = <<>>]
                                 = [b EXCEPT !.respondsToGlobalAxes = TRUE, !.flags = {},
                                             !.location = <<>>]
                            /\ a.flags \ {"RESET_UNSPECIFIED_AXES"}
                                 = b.flags \ {"RESET_UNSPECIFIED_AXES"}
                            /\ a # b => (b.respondsToGlobalAxes /\ ~a.respondsToGlobalAxes)

\* C29: after prepareGlyphs the cmap holds c -> g only if g is in the glyph
\* order and c is one of g's code points in the glyph map, and every code
\* point of every glyph of the glyph order that is in the glyph map is
\* mapped, also when the glyph failed to compile and is a placeholder
C29_CmapIsTheGlyphMapOfTheGlyphOrder ==
    pc \in {"buildFont", "save", "done"} =>
        /\ \A c \in DOMAIN cmap :
            /\ SeqContains(glyphOrder, cmap[c])
            /\ cmap[c] \in DOMAIN reader.glyphMap
            /\ c \in reader.glyphMap[cmap[c]]
        /\ \A k \in 1..Len(glyphOrder) :
            glyphOrder[k] \in DOMAIN reader.glyphMap =>
                \A c \in reader.glyphMap[glyphOrder[k]] : c \in DOMAIN cmap

\* C29 witness: prepareGlyphs has ended, a glyph with a code point failed to
\* compile and is a placeholder, and another glyph with a code point compiled
C29_Witness ==
    /\ pc = "buildFont"
    /\ \E g \in DOMAIN reader.glyphMap :
        /\ reader.glyphMap[g] # {}
        /\ compileError[g] \in RecoveredErrors
        /\ IsPlaceholder(g)
    /\ \E g \in DOMAIN reader.glyphMap :
        /\ reader.glyphMap[g] # {}
        /\ compileError[g] = "none"
    /\ Cardinality(DOMAIN cmap) = 2

\* The input of a compile-varc or compile-fontmake action is set exactly
\* while its connect() context is active
InputSetWhileConnected ==
    outputAction.kind \in {"compile-varc", "compile-fontmake"} =>
        (outputAction.input # "None" <=> outputAction.context = "active")

\* A process() of a compile-varc or compile-fontmake action whose context is
\* not active fails its assertion and builds, exports, runs and writes nothing
ProcessOutsideContextAsserts ==
    (/\ outputAction.kind \in {"compile-varc", "compile-fontmake"}
     /\ outputAction.context # "active"
     /\ outputAction'.processCalls = outputAction.processCalls + 1)
        => /\ outputAction'.error = "AssertionError"
           /\ outputAction'.built = outputAction.built
           /\ outputAction'.exported = outputAction.exported
           /\ outputAction'.command = outputAction.command
           /\ outputAction'.outputWritten = outputAction.outputWritten

\* C30: for compile-varc and compile-fontmake the action's input is set
\* exactly while the connect() context is active (assigned on entry, reset
\* to None on exit, normal or raised), and process() on an action whose
\* context is not active fails its assertion before building or writing
\* anything
C30_InputIsSetExactlyWhileConnected ==
    []InputSetWhileConnected /\ [][ProcessOutsideContextAsserts]_vars

\* C30 witness: a compile-varc or compile-fontmake action was connected
\* twice and wrote its output in a context, and its last process(), after
\* the context was left, failed the assertion
C30_Witness ==
    /\ outputAction.kind \in {"compile-varc", "compile-fontmake"}
    /\ outputAction.connects = 2
    /\ outputAction.context = "exited"
    /\ outputAction.input = "None"
    /\ outputAction.outputWritten
    /\ outputAction.processCalls = 2
    /\ outputAction.error = "AssertionError"

=============================================================================
